---- MODULE Spec2Model ----
(***************************************************************************)
(* Model of the link manager "lm": the ingestion pipeline (duplicate       *)
(* check, fetch, extract, summarize, persist, associate metadata) in its   *)
(* command-line form (cmd/add.go, cmd/refetch.go) and its TUI form         *)
(* (internal/tui/addlink.go, internal/tui/editlink.go), the Fetcher, and   *)
(* the SQLite store with its full-text index kept by triggers.             *)
(***************************************************************************)
EXTENDS Integers, Sequences, FiniteSets, TLC

VARIABLES
    db,         \* the SQLite database: tables, the FTS index, AUTOINCREMENT counters
    proc,       \* the running operations (CLI runs and TUI commands), one record each
    ui,         \* the TUI's Add-Link modal (Model.showAddLinkModal and AddLinkModel)
    opsStarted, \* number of operations started so far (bounded by MaxOps)
    fcall,      \* a stand-alone call of Fetcher.FetchURL (locals of the call)
    server,     \* what the server does with the requests of the stand-alone call
    ctxDone,    \* whether the context of the stand-alone call is cancelled
    call,       \* a stand-alone call of a function of the services: arguments, result
    sink        \* the MemorySink of the log panel and the goroutines that use it

vars == <<db, proc, ui, opsStarted, fcall, server, ctxDone, call, sink>>

(***************************************************************************)
(* Bounds of the model                                                     *)
(***************************************************************************)
MaxOps == 2        \* operations started in one behaviour
MaxText == 5       \* length of the texts given to a stand-alone call
MaxMd == 6         \* length of the Markdown texts given to a stand-alone call
MaxEmits == 3      \* log events emitted to a sink
MaxElements == 2   \* elements of a page that match a selector of the content area

(***************************************************************************)
(* Program constants                                                       *)
(***************************************************************************)
MaxAttempts == 2          \* for attempt := 0; attempt < 2; attempt++
StatusAccepted == 202     \* http.StatusAccepted
ContentMax == 10000       \* TruncateText(text, 10000)

(***************************************************************************)
(* Small value domains                                                     *)
(***************************************************************************)
\* the TUI program and a run of the command line, two processes on one database
TUI == "tui"
\* a second command of the TUI in flight next to the first: Bubble Tea runs
\* every tea.Cmd in a goroutine of its own
TUI2 == "tui2"
CLI == "cli"
Procs == {TUI, TUI2, CLI}
URLs == {"u1", "u2"}
Bodies == {"h1", "h2"}                 \* HTML documents a server can return
Statuses == {200, 202, 204, 404, 500}  \* HTTP status codes a server can return
NoBody == "none"
\* a document whose text is longer than the stored content may be
LongBody == "long"

\* What one client.Do (and the ReadAll that may follow) can meet:
\*   neterr   - client.Do returns an error (DNS, timeout, connection refused)
\*   response - a complete response: status line and body
\*   bodyerr  - a status line arrives but reading the body fails
Outcomes ==
    {[kind |-> "neterr", status |-> 0, body |-> NoBody]}
    \cup [kind : {"response"}, status : Statuses, body : Bodies]
    \cup [kind : {"bodyerr"}, status : Statuses, body : {NoBody}]

(***************************************************************************)
(* Fetcher.FetchURL                                                        *)
(***************************************************************************)
FetchIdle ==
    [pc |-> "idle", url |-> "", attempt |-> 0, requests |-> 0,
     statuses |-> <<>>, body |-> NoBody, err |-> ""]

\* entry of FetchURL: attempt := 0
FetchStart(url) ==
    [FetchIdle EXCEPT !.pc = "request", !.url = url]

FetchFail(f, e) == [f EXCEPT !.pc = "done", !.err = e]

\* resp.StatusCode >= 200 && resp.StatusCode < 300
IsSuccessStatus(status) == status >= 200 /\ status < 300

\* A mutant of FetchResponse that returns "", nil for a status outside 2xx.
FetchResponse_Silent(f, out) ==
    LET g == [f EXCEPT !.statuses = Append(@, out.status)] IN
    IF IsSuccessStatus(out.status)
    THEN IF out.kind = "bodyerr"
         THEN FetchFail(g, "failed to read response body")
         ELSE [g EXCEPT !.pc = "done", !.body = out.body]
    ELSE IF out.status = StatusAccepted /\ f.attempt = 0
    THEN [g EXCEPT !.pc = "wait"]
    ELSE [g EXCEPT !.pc = "done"]

\* A mutant of FetchResponse that retries on every non-2xx status.
FetchResponse_RetryAny(f, out) ==
    LET g == [f EXCEPT !.statuses = Append(@, out.status)] IN
    IF IsSuccessStatus(out.status)
    THEN IF out.kind = "bodyerr"
         THEN FetchFail(g, "failed to read response body")
         ELSE [g EXCEPT !.pc = "done", !.body = out.body]
    ELSE IF f.attempt = 0
    THEN [g EXCEPT !.pc = "wait"]
    ELSE FetchFail(g, "unexpected status code")

\* the handling of a response whose status line has arrived
FetchResponse(f, out) ==
    LET g == [f EXCEPT !.statuses = Append(@, out.status)] IN
    IF IsSuccessStatus(out.status)
    THEN IF out.kind = "bodyerr"
         THEN FetchFail(g, "failed to read response body")
         ELSE [g EXCEPT !.pc = "done", !.body = out.body]
    ELSE IF out.status = StatusAccepted /\ f.attempt = 0
    THEN [g EXCEPT !.pc = "wait"]
    ELSE FetchFail(g, "unexpected status code")

\* one pass through the loop body: newRequest, client.Do, the status tests.
\* A cancelled context makes client.Do fail whatever the server would do.
FetchRequest(f, out, cancelled) ==
    IF f.attempt >= MaxAttempts
    THEN FetchFail(f, "failed to fetch URL after retries")
    ELSE LET g == [f EXCEPT !.requests = @ + 1] IN
         IF cancelled \/ out.kind = "neterr"
         THEN FetchFail(g, "failed to fetch URL")
         ELSE FetchResponse(g, out)

\* the select on ctx.Done() and the 750 ms timer, then continue (attempt++)
FetchWait(f, cancelled) ==
    IF cancelled
    THEN FetchFail(f, "fetch canceled")
    ELSE [f EXCEPT !.pc = "request", !.attempt = @ + 1]

(***************************************************************************)
(* The store: schema 001_initial_schema.sql / 002_add_activities.sql and   *)
(* the sqlc queries                                                        *)
(***************************************************************************)
\* sql.NullString{String: s, Valid: s != ""} for a string column
NullString(s) == [String |-> s, Valid |-> s # ""]
\* the same for the content column, whose text is a sequence of characters
NullText(t) == [String |-> t, Valid |-> t # <<>>]

EmptyDB ==
    [links |-> {}, links_fts |-> {},
     categories |-> {}, tags |-> {}, tasks |-> {}, activities |-> {},
     link_categories |-> {}, link_tags |-> {},
     link_tasks |-> {}, link_activities |-> {},
     seq_links |-> 0, seq_categories |-> 0, seq_tags |-> 0,
     seq_tasks |-> 0, seq_activities |-> 0]

NoRow == [id |-> 0]
ErrNoRows == "sql: no rows in result set"
ErrUniqueURL == "UNIQUE constraint failed: links.url"
ErrUniqueName == "UNIQUE constraint failed: name"
ErrUniquePair == "UNIQUE constraint failed: pair"

\* A mutant of GetLinkByURL that finds no row.
GetLinkByURL_Never(d, url) == [err |-> ErrNoRows, row |-> NoRow]

\* -- name: GetLinkByURL :one
GetLinkByURL(d, url) ==
    IF \E l \in d.links : l.url = url
    THEN [err |-> "", row |-> CHOOSE l \in d.links : l.url = url]
    ELSE [err |-> ErrNoRows, row |-> NoRow]

\* -- name: GetLink :one
GetLink(d, id) ==
    IF \E l \in d.links : l.id = id
    THEN [err |-> "", row |-> CHOOSE l \in d.links : l.id = id]
    ELSE [err |-> ErrNoRows, row |-> NoRow]

\* the columns of a links row that the index projects
FtsRow(l) ==
    [rowid |-> l.id, url |-> l.url, title |-> l.title,
     content |-> l.content, summary |-> l.summary]

\* CREATE TRIGGER links_fts_insert AFTER INSERT ON links
links_fts_insert(fts, new) == fts \cup {FtsRow(new)}

\* A mutant of links_fts_update that leaves the summary column as it was.
links_fts_update_KeepSummary(fts, new) ==
    {IF r.rowid = new.id
     THEN [r EXCEPT !.url = new.url, !.title = new.title, !.content = new.content]
     ELSE r : r \in fts}

\* CREATE TRIGGER links_fts_update AFTER UPDATE ON links
links_fts_update(fts, new) ==
    {IF r.rowid = new.id
     THEN [r EXCEPT !.url = new.url, !.title = new.title,
                    !.content = new.content, !.summary = new.summary]
     ELSE r : r \in fts}

\* A mutant of links_fts_delete that removes nothing.
links_fts_delete_Missing(fts, old) == fts

\* CREATE TRIGGER links_fts_delete AFTER DELETE ON links
links_fts_delete(fts, old) == {r \in fts : r.rowid # old.id}

\* A mutant of CreateLink that replaces the row of a stored URL (INSERT OR
\* REPLACE) instead of failing.
CreateLink_Replace(d, arg) ==
    LET id == d.seq_links + 1
        old == {l \in d.links : l.url = arg.Url}
        row == [id |-> id, url |-> arg.Url, title |-> arg.Title,
                content |-> arg.Content, summary |-> arg.Summary,
                status |-> arg.Status, updated_at |-> FALSE,
                fetched_at |-> FALSE, summarized_at |-> FALSE]
    IN [err |-> "", row |-> row,
        db |-> [d EXCEPT !.links = (@ \ old) \cup {row},
                         !.links_fts = {x \in @ : \A l \in old : x.rowid # l.id}
                                          \cup {FtsRow(row)},
                         !.seq_links = id]]

\* A mutant of CreateLink without the UNIQUE constraint on links.url.
CreateLink_NoUnique(d, arg) ==
    LET new == [id |-> d.seq_links + 1, url |-> arg.Url, title |-> arg.Title,
                content |-> arg.Content, summary |-> arg.Summary,
                status |-> arg.Status, updated_at |-> FALSE,
                fetched_at |-> FALSE, summarized_at |-> FALSE]
    IN [err |-> "", row |-> new,
        db |-> [d EXCEPT !.links = @ \cup {new},
                         !.seq_links = @ + 1,
                         !.links_fts = links_fts_insert(@, new)]]

\* -- name: CreateLink :one   (links.url is UNIQUE, id is AUTOINCREMENT,
\* fetched_at and summarized_at start NULL).  Of a timestamp the model keeps
\* whether it is set; of updated_at, whether it is later than created_at.
CreateLink(d, arg) ==
    IF \E l \in d.links : l.url = arg.Url
    THEN [err |-> ErrUniqueURL, row |-> NoRow, db |-> d]
    ELSE LET new == [id |-> d.seq_links + 1, url |-> arg.Url, title |-> arg.Title,
                     content |-> arg.Content, summary |-> arg.Summary,
                     status |-> arg.Status, updated_at |-> FALSE,
                     fetched_at |-> FALSE, summarized_at |-> FALSE]
         IN [err |-> "", row |-> new,
             db |-> [d EXCEPT !.links = @ \cup {new},
                              !.seq_links = @ + 1,
                              !.links_fts = links_fts_insert(@, new)]]

\* an UPDATE of the links row `old` into `new`, with its AFTER UPDATE trigger
UpdateRow(d, old, new) ==
    [d EXCEPT !.links = (@ \ {old}) \cup {new},
              !.links_fts = links_fts_update(@, new)]

\* A mutant of UpdateLink that stores the new values as a new row.
UpdateLink_Reinsert(d, arg) ==
    LET g == GetLink(d, arg.ID) IN
    IF g.err # ""
    THEN [err |-> ErrNoRows, row |-> NoRow, db |-> d]
    ELSE LET new == [g.row EXCEPT !.id = d.seq_links + 1,
                                  !.title = arg.Title, !.content = arg.Content,
                                  !.summary = arg.Summary, !.status = arg.Status,
                                  !.updated_at = TRUE]
         IN [err |-> "", row |-> new,
             db |-> [UpdateRow(d, g.row, new) EXCEPT !.seq_links = @ + 1]]

\* -- name: UpdateLink :one
UpdateLink(d, arg) ==
    LET g == GetLink(d, arg.ID) IN
    IF g.err # ""
    THEN [err |-> ErrNoRows, row |-> NoRow, db |-> d]
    ELSE LET new == [g.row EXCEPT !.title = arg.Title, !.content = arg.Content,
                                  !.summary = arg.Summary, !.status = arg.Status,
                                  !.updated_at = TRUE]
         IN [err |-> "", row |-> new, db |-> UpdateRow(d, g.row, new)]

\* -- name: UpdateLinkFetchedAt :exec
UpdateLinkFetchedAt(d, id) ==
    LET g == GetLink(d, id) IN
    IF g.err # "" THEN d
    ELSE UpdateRow(d, g.row, [g.row EXCEPT !.fetched_at = TRUE, !.updated_at = TRUE])

\* -- name: UpdateLinkSummarizedAt :exec
UpdateLinkSummarizedAt(d, id) ==
    LET g == GetLink(d, id) IN
    IF g.err # "" THEN d
    ELSE UpdateRow(d, g.row, [g.row EXCEPT !.summarized_at = TRUE,
                                           !.updated_at = TRUE])

\* PRAGMA foreign_keys of the connections that database.New opens: the
\* FOREIGN KEY clauses of the junction tables are enforced
foreign_keys == TRUE

\* the rows of a junction table that stay when the row id of the parent in
\* column col is deleted: ON DELETE CASCADE
Cascade(table, col, id) ==
    IF foreign_keys THEN {r \in table : r[col] # id} ELSE table

\* A mutant of DeleteLink that leaves the association rows of the link.
DeleteLink_NoCascade(d, id) ==
    LET g == GetLink(d, id) IN
    IF g.err # "" THEN d
    ELSE [d EXCEPT !.links = @ \ {g.row},
                   !.links_fts = links_fts_delete(@, g.row)]

\* -- name: DeleteLink :exec, with ON DELETE CASCADE of the four junction
\* tables and the AFTER DELETE trigger
DeleteLink(d, id) ==
    LET g == GetLink(d, id) IN
    IF g.err # "" THEN d
    ELSE [d EXCEPT !.links = @ \ {g.row},
                   !.links_fts = links_fts_delete(@, g.row),
                   !.link_categories = Cascade(@, 1, id),
                   !.link_tags = Cascade(@, 1, id),
                   !.link_tasks = Cascade(@, 1, id),
                   !.link_activities = Cascade(@, 1, id)]

\* A mutant of DeleteCategory that leaves the association rows of the category.
DeleteCategory_NoCascade(d, id) ==
    [d EXCEPT !.categories = {c \in @ : c.id # id}]

\* -- name: DeleteCategory :exec, with ON DELETE CASCADE of link_categories
DeleteCategory(d, id) ==
    [d EXCEPT !.categories = {c \in @ : c.id # id},
              !.link_categories = Cascade(@, 2, id)]

\* -- name: DeleteTag :exec, with ON DELETE CASCADE of link_tags
DeleteTag(d, id) ==
    [d EXCEPT !.tags = {t \in @ : t.id # id},
              !.link_tags = Cascade(@, 2, id)]

\* -- name: DeleteTask :exec, with ON DELETE CASCADE of link_tasks
DeleteTask(d, id) ==
    [d EXCEPT !.tasks = {t \in @ : t.id # id},
              !.link_tasks = Cascade(@, 2, id)]

\* DeleteActivity, with ON DELETE CASCADE of link_activities
DeleteActivity(d, id) ==
    [d EXCEPT !.activities = {a \in @ : a.id # id},
              !.link_activities = Cascade(@, 2, id)]

\* -- name: GetCategoryByName :one
GetCategoryByName(d, name) ==
    IF \E c \in d.categories : c.name = name
    THEN [err |-> "", row |-> CHOOSE c \in d.categories : c.name = name]
    ELSE [err |-> ErrNoRows, row |-> NoRow]

\* -- name: CreateCategory :one   (categories.name is UNIQUE)
CreateCategory(d, name) ==
    IF \E c \in d.categories : c.name = name
    THEN [err |-> ErrUniqueName, row |-> NoRow, db |-> d]
    ELSE LET new == [id |-> d.seq_categories + 1, name |-> name]
         IN [err |-> "", row |-> new,
             db |-> [d EXCEPT !.categories = @ \cup {new}, !.seq_categories = @ + 1]]

\* -- name: GetTagByName :one
GetTagByName(d, name) ==
    IF \E t \in d.tags : t.name = name
    THEN [err |-> "", row |-> CHOOSE t \in d.tags : t.name = name]
    ELSE [err |-> ErrNoRows, row |-> NoRow]

\* -- name: CreateTag :one   (tags.name is UNIQUE)
CreateTag(d, name) ==
    IF \E t \in d.tags : t.name = name
    THEN [err |-> ErrUniqueName, row |-> NoRow, db |-> d]
    ELSE LET new == [id |-> d.seq_tags + 1, name |-> name]
         IN [err |-> "", row |-> new,
             db |-> [d EXCEPT !.tags = @ \cup {new}, !.seq_tags = @ + 1]]

\* -- name: CreateTask :one   (tasks.name is not unique)
CreateTask(d, name) ==
    LET new == [id |-> d.seq_tasks + 1, name |-> name, completed |-> FALSE]
    IN [err |-> "", row |-> new,
        db |-> [d EXCEPT !.tasks = @ \cup {new}, !.seq_tasks = @ + 1]]

\* -- name: CreateActivity :one   (activities.name is not unique)
CreateActivity(d, name) ==
    LET new == [id |-> d.seq_activities + 1, name |-> name]
    IN [err |-> "", row |-> new,
        db |-> [d EXCEPT !.activities = @ \cup {new}, !.seq_activities = @ + 1]]

\* an INSERT into a junction table: PRIMARY KEY (link_id, other_id), both
\* columns FOREIGN KEYs
InsertPair(table, parents, linkID, otherID, links) ==
    IF <<linkID, otherID>> \in table
    THEN [err |-> ErrUniquePair, table |-> table]
    ELSE IF foreign_keys /\ (\/ \A l \in links : l.id # linkID
                              \/ \A o \in parents : o.id # otherID)
    THEN [err |-> "FOREIGN KEY constraint failed", table |-> table]
    ELSE [err |-> "", table |-> table \cup {<<linkID, otherID>>}]

\* -- name: LinkCategory :exec
LinkCategory(d, linkID, categoryID) ==
    LET r == InsertPair(d.link_categories, d.categories, linkID, categoryID, d.links)
    IN [err |-> r.err, db |-> [d EXCEPT !.link_categories = r.table]]

\* -- name: LinkTag :exec
LinkTag(d, linkID, tagID) ==
    LET r == InsertPair(d.link_tags, d.tags, linkID, tagID, d.links)
    IN [err |-> r.err, db |-> [d EXCEPT !.link_tags = r.table]]

\* -- name: LinkTask :exec
LinkTask(d, linkID, taskID) ==
    LET r == InsertPair(d.link_tasks, d.tasks, linkID, taskID, d.links)
    IN [err |-> r.err, db |-> [d EXCEPT !.link_tasks = r.table]]

\* -- name: LinkActivity :exec
LinkActivity(d, linkID, activityID) ==
    LET r == InsertPair(d.link_activities, d.activities, linkID, activityID, d.links)
    IN [err |-> r.err, db |-> [d EXCEPT !.link_activities = r.table]]

(***************************************************************************)
(* Extractor and Summarizer                                                *)
(***************************************************************************)
\* strings.LastIndex(s, ch): the 0-based index of the last ch in s, or -1
LastIndex(s, ch) ==
    IF \E i \in 1..Len(s) : s[i] = ch
    THEN (CHOOSE i \in 1..Len(s) : s[i] = ch /\ \A j \in (i+1)..Len(s) : s[j] # ch) - 1
    ELSE -1

\* A mutant of TruncateText that appends the ellipsis to every text.
TruncateText_Always(text, maxLength) ==
    LET truncated == SubSeq(text, 1, IF Len(text) <= maxLength THEN Len(text)
                                     ELSE maxLength)
        lastSpace == LastIndex(truncated, " ")
    IN (IF lastSpace > maxLength \div 2
        THEN SubSeq(truncated, 1, lastSpace)
        ELSE truncated) \o <<".", ".", ".">>

\* A mutant of TruncateText that backs up to the last space wherever it is.
TruncateText_AnySpace(text, maxLength) ==
    IF Len(text) <= maxLength
    THEN text
    ELSE LET truncated == SubSeq(text, 1, maxLength)
             lastSpace == LastIndex(truncated, " ")
         IN (IF lastSpace >= 0
             THEN SubSeq(truncated, 1, lastSpace)
             ELSE truncated) \o <<".", ".", ".">>

\* A mutant of TruncateText that returns every text as it is.
TruncateText_Never(text, maxLength) == text

\* Extractor.TruncateText
TruncateText(text, maxLength) ==
    IF Len(text) <= maxLength
    THEN text
    ELSE LET truncated == SubSeq(text, 1, maxLength)
             lastSpace == LastIndex(truncated, " ")
         IN (IF lastSpace > maxLength \div 2
             THEN SubSeq(truncated, 1, lastSpace)
             ELSE truncated) \o <<".", ".", ".">>

\* What ExtractText finds in each of the HTML documents of the model:
\* h1 is <title>Hello</title><article><p>World</p></article>, h2 has no title.
PageTitle(html) == IF html = "h1" THEN "Hello" ELSE ""
PageText(html) ==
    IF html = "h1" THEN <<"W", "o", "r", "l", "d">>
    ELSE IF html = LongBody THEN [i \in 1..(ContentMax + 4) |-> "x"]
    ELSE <<"n", "e", "w">>

\* Extractor.ExtractText: the outcomes for a document, a parse or conversion
\* error among them
ExtractText(html) ==
    {[err |-> "", title |-> PageTitle(html), text |-> PageText(html)],
     [err |-> "failed to parse HTML", title |-> "", text |-> <<>>]}

\* Summarizer.Summarize: a summary, or "" with an error
Summarize(title, text) ==
    {[err |-> "", summary |-> "sum"],
     [err |-> "failed to generate summary", summary |-> ""]}

\* Summarizer.SuggestMetadata: a parsed (category, tags), where
\* parseMetadataResponse has put its defaults, or ("", nil) with an error.
\* parseMetadataResponse trims the items of the "Tags:" line and keeps their
\* case: the tag of the response of the model is "Go".
SuggestMetadata(title, text) ==
    {[err |-> "", category |-> "Tech", tags |-> <<"Go">>],
     [err |-> "failed to generate suggestions", category |-> "", tags |-> <<>>]}

(***************************************************************************)
(* parseMetadataResponse (summarizer.go), on texts as sequences of         *)
(* characters                                                              *)
(***************************************************************************)
NL == "\n"
Blank == {" ", "\t"}

RECURSIVE LinesOf(_)
\* the loop over the characters of the response that builds `lines`
LinesOf(response) ==
    IF response = <<>> THEN <<>>
    ELSE LET lines == LinesOf(SubSeq(response, 1, Len(response) - 1))
             ch == response[Len(response)]
         IN IF ch = NL THEN Append(lines, <<>>)
            ELSE IF Len(lines) = 0 THEN <<(<<ch>>)>>
            ELSE [lines EXCEPT ![Len(lines)] = Append(@, ch)]

RECURSIVE TrimLeft(_)
\* for len(x) > 0 && (x[0] == ' ' || x[0] == '\t') { x = x[1:] }
TrimLeft(x) == IF Len(x) > 0 /\ x[1] \in Blank THEN TrimLeft(Tail(x)) ELSE x

RECURSIVE TrimRight(_)
\* for len(x) > 0 && (x[len(x)-1] == ' ' || x[len(x)-1] == '\t') { x = x[:len(x)-1] }
TrimRight(x) ==
    IF Len(x) > 0 /\ x[Len(x)] \in Blank THEN TrimRight(SubSeq(x, 1, Len(x) - 1)) ELSE x

RECURSIVE TagsOf(_, _, _)
\* the loop over the characters of tagsStr: a comma ends a tag, which is
\* trimmed and kept if it is not empty; the last tag is added after the loop
TagsOf(tagsStr, tag, tags) ==
    LET t == TrimRight(TrimLeft(tag))
        added == IF t # <<>> THEN Append(tags, t) ELSE tags
    IN IF tagsStr = <<>> THEN added
       ELSE IF Head(tagsStr) = "," THEN TagsOf(Tail(tagsStr), <<>>, added)
       ELSE TagsOf(Tail(tagsStr), Append(tag, Head(tagsStr)), tags)

CategoryKey == <<"C", "a", "t", "e", "g", "o", "r", "y", ":">>
TagsKey == <<"T", "a", "g", "s", ":">>

RECURSIVE ParseLines(_, _, _)
\* for _, line := range lines
ParseLines(lines, category, tags) ==
    IF lines = <<>> THEN [category |-> category, tags |-> tags]
    ELSE LET line == Head(lines)
         IN IF Len(line) > 10 /\ SubSeq(line, 1, 9) = CategoryKey
            THEN ParseLines(Tail(lines),
                            TrimRight(TrimLeft(SubSeq(line, 10, Len(line)))), tags)
            ELSE IF Len(line) > 5 /\ SubSeq(line, 1, 5) = TagsKey
            THEN ParseLines(Tail(lines), category,
                            TagsOf(TrimLeft(SubSeq(line, 6, Len(line))), <<>>, tags))
            ELSE ParseLines(Tail(lines), category, tags)

General == <<"G", "e", "n", "e", "r", "a", "l">>
Uncategorized == <<"u", "n", "c", "a", "t", "e", "g", "o", "r", "i", "z", "e", "d">>

\* parseMetadataResponse
parseMetadataResponse(response) ==
    LET parsed == ParseLines(LinesOf(response), <<>>, <<>>)
    IN [category |-> IF parsed.category = <<>> THEN General ELSE parsed.category,
        tags |-> IF Len(parsed.tags) = 0 THEN <<Uncategorized>> ELSE parsed.tags]

(***************************************************************************)
(* The end of ExtractText (extractor.go): the blank lines and the trim, on *)
(* texts as sequences of characters                                        *)
(***************************************************************************)
\* \p{Z}, the separators; of the characters of the model the space is one,
\* the tab and the newline are not
IsZ(c) == c = " "
\* unicode.IsSpace, what strings.TrimSpace removes
IsSpace(c) == c \in {" ", "\t", NL}

\* where a match of multipleBlankLines, \n\p{Z}*(\n\p{Z}*)+\n, that begins at
\* md[i] ends, 0 if there is none: the newlines and separators from i on, as
\* far as they go (the quantifiers are greedy), up to the last newline among
\* them, three newlines at least
MatchEnd(md, i) ==
    IF md[i] # NL THEN 0
    ELSE LET run == {k \in i..Len(md) : \A m \in i..k : md[m] = NL \/ IsZ(md[m])}
             ends == {k \in run : md[k] = NL}
             j == CHOOSE k \in ends : \A m \in ends : m <= k
         IN IF Cardinality(ends) >= 3 THEN j ELSE 0

RECURSIVE ReplaceAllString(_, _)
\* multipleBlankLines.ReplaceAllString(md, "\n\n"), from md[i] on: the
\* leftmost matches, none overlapping another
ReplaceAllString(md, i) ==
    IF i > Len(md) THEN <<>>
    ELSE LET j == MatchEnd(md, i)
         IN IF j > 0 THEN <<NL, NL>> \o ReplaceAllString(md, j + 1)
            ELSE <<md[i]>> \o ReplaceAllString(md, i + 1)

RECURSIVE TrimSpaceText(_)
\* strings.TrimSpace on a text
TrimSpaceText(x) ==
    IF Len(x) > 0 /\ IsSpace(x[1]) THEN TrimSpaceText(Tail(x))
    ELSE IF Len(x) > 0 /\ IsSpace(x[Len(x)]) THEN TrimSpaceText(SubSeq(x, 1, Len(x) - 1))
    ELSE x

\* text = strings.TrimSpace(multipleBlankLines.ReplaceAllString(md, "\n\n"))
NormalizedText(md) == TrimSpaceText(ReplaceAllString(md, 1))

(***************************************************************************)
(* Names typed by the user: flags of `lm add`, inputs of the dialogs       *)
(***************************************************************************)
\* strings.TrimSpace on the names of the model
TrimSpace(n) == IF n = " " THEN "" ELSE n
\* strings.ToLower on the names of the model
ToLower(n) ==
    CASE n = "Go" -> "go"
      [] n = "Work" -> "work"
      [] n = "Tech" -> "tech"
      [] n = "General" -> "general"
      [] n = "Hello" -> "hello"
      [] OTHER -> n

\* what the user gives for the category and the tags: nothing, or a category
\* and a comma-separated tag list "Go, " (the items between the commas)
Metadata == {<<"", <<>>>>, <<"Work", <<"Go", " ">>>>}
\* no flag given to `lm add`
NoFlags == [cat |-> "", tags |-> <<>>, type |-> "link", nm |-> ""]
\* the flags --category, --tags, --type, --task-name / --activity-name of the
\* runs of `lm add`: none, a category and tags, a named task, an activity
\* without a name
Flags ==
    {[NoFlags EXCEPT !.cat = md[1], !.tags = md[2]] : md \in Metadata}
    \cup {[NoFlags EXCEPT !.type = "task", !.nm = "Work"],
          [NoFlags EXCEPT !.type = "activity"]}

RECURSIVE MapNames(_, _)
\* the loop `for _, p := range parts` of parseTags
MapNames(items, lower) ==
    IF items = <<>> THEN <<>>
    ELSE LET t == IF lower THEN ToLower(TrimSpace(Head(items)))
                            ELSE TrimSpace(Head(items))
         IN (IF t # "" THEN <<t>> ELSE <<>>) \o MapNames(Tail(items), lower)

\* parseTags (cmd/add.go)
parseTags(raw) == MapNames(raw, TRUE)

(***************************************************************************)
(* Running operations                                                      *)
(*   cli_add          addURL (cmd/add.go)                                  *)
(*   cli_refetch      refetchURL (cmd/refetch.go)                          *)
(*   tui_ingest       fetchLink, extractLink, summarizeAndSave (addlink.go)*)
(*   tui_saveMetadata saveMetadata (addlink.go)                            *)
(*   tui_reload       reloadContent (editlink.go)                          *)
(*   tui_saveChanges  saveChanges (editlink.go)                            *)
(* A step of an operation is one query on the database together with the   *)
(* code that leads to it from the query before, or one message handled by  *)
(* Update together with the command that Update starts: the HTTP requests, *)
(* the extraction and the LLM calls read and write nothing that another    *)
(* operation shares.  pc names the query that comes next; "msg" is a TUI   *)
(* command that has returned its message, not yet handled by Update.  A    *)
(* local that the rest of the operation does not read is reset.            *)
(***************************************************************************)
NoResult ==
    [kind |-> "none", linkID |-> 0, preview |-> <<>>, summary |-> "",
     category |-> "", tags |-> <<>>, err |-> "", cause |-> ""]

Idle ==
    [op |-> "none", pc |-> "idle", url |-> "", summarizer |-> FALSE,
     html |-> NoBody, title |-> "", text |-> <<>>,
     content |-> <<>>, summary |-> "", sugCat |-> "", sugTags |-> <<>>,
     link |-> NoRow, name |-> "", other |-> 0, addTags |-> <<>>, tagList |-> <<>>,
     flags |-> NoFlags, result |-> NoResult,
     \* history of the run, read by the properties only
     atCheck |-> 0, fetchCalls |-> 0, requests |-> 0, wrote |-> FALSE,
     sumErr |-> FALSE, sugErr |-> FALSE, stage |-> "",
     again |-> FALSE, since |-> 0,
     \* of a chain of TUI commands that fetchLink has started: the URL, the
     \* messages that Update has handed to a form, whether the modal has been
     \* closed since
     submitted |-> "", events |-> <<>>, closed |-> FALSE,
     \* of a command of the Edit-Link dialog after a reload: m.link, the row
     \* that the dialog was opened with
     held |-> NoRow]

IngestOps == {"cli_add", "tui_ingest"}
RefreshOps == {"cli_refetch", "tui_reload"}

Free(p) == proc[p].pc \in {"idle", "done"}

\* the goroutine that a command of the Add-Link form runs in
Slot(p) == p = (IF Free(TUI) THEN TUI ELSE TUI2) /\ Free(p)

\* the operation returns (CLI) or its command returns its last message (TUI)
Return(r, res) ==
    [Idle EXCEPT !.op = r.op, !.url = r.url, !.summarizer = r.summarizer,
                 !.pc = IF r.op \in {"tui_ingest", "tui_saveMetadata"}
                        THEN "msg" ELSE "done",
                 !.link = [id |-> r.link.id], !.result = res,
                 !.atCheck = r.atCheck, !.fetchCalls = r.fetchCalls,
                 !.requests = r.requests, !.wrote = r.wrote,
                 !.sumErr = r.sumErr, !.sugErr = r.sugErr, !.stage = r.stage,
                 !.again = r.again, !.since = r.since,
                 !.submitted = r.submitted, !.events = r.events,
                 !.closed = r.closed, !.held = r.held]

\* return fmt.Errorf(...) / return linkProcessErrorMsg{...}
Failed(r, e) == Return(r, [NoResult EXCEPT !.kind = "failed", !.err = e])

\* return fmt.Errorf("...: %w", err): the message e wraps the error of a query
Wrapped(r, e, cause) ==
    Return(r, [NoResult EXCEPT !.kind = "failed", !.err = e, !.cause = cause])

\* the successful end of an operation on the link r.link; addURL and
\* refetchURL print the summary
Complete(r) ==
    Return(r, [NoResult EXCEPT !.kind = IF r.op = "tui_saveMetadata" THEN "saved"
                                        ELSE "complete",
                               !.linkID = r.link.id, !.summary = r.summary])

(***************************************************************************)
(* The stages between the queries                                          *)
(***************************************************************************)
\* what a request of the pipeline can meet: the outcomes, with the documents
\* of small text, and what the servers of the behaviour serve besides
Served == Outcomes \cup {server[i] : i \in 1..MaxAttempts}

RECURSIVE FetchRun(_)
\* the ends that a call of FetchURL in state f can come to.  The callers pass
\* context.Background(), which is never cancelled.
FetchRun(f) ==
    IF f.pc = "done" THEN {f}
    ELSE IF f.pc = "wait" THEN FetchRun(FetchWait(f, FALSE))
    ELSE UNION {FetchRun(FetchRequest(f, out, FALSE)) : out \in Served}

\* html, err := fetcher.FetchURL(ctx, url)
Fetching(r) ==
    {[r EXCEPT !.stage = "Fetching", !.fetchCalls = @ + 1, !.requests = f.requests,
               !.html = f.body,
               !.result = IF f.err # ""
                          THEN [NoResult EXCEPT !.kind = "failed", !.err = "fetch failed"]
                          ELSE NoResult] :
        f \in FetchRun(FetchStart(r.url))}

\* title, text, err := extractor.ExtractText(html, url);
\* content := extractor.TruncateText(text, 10000)
Extracting(r) ==
    {[r EXCEPT !.stage = "Extracting", !.html = NoBody,
               !.title = x.title, !.text = x.text,
               !.content = TruncateText(x.text, ContentMax),
               !.result = IF x.err # ""
                          THEN [NoResult EXCEPT !.kind = "failed",
                                                !.err = "extraction failed"]
                          ELSE NoResult] :
        x \in ExtractText(r.html)}

\* A mutant of Summarizing that gives up the operation when Summarize fails.
Summarizing_Abort(r) ==
    IF ~r.summarizer THEN {r}
    ELSE {[r EXCEPT !.stage = "Summarizing", !.summary = x.summary,
                    !.sumErr = x.err # "",
                    !.result = IF x.err # ""
                               THEN [NoResult EXCEPT !.kind = "failed",
                                                     !.err = "summarize failed"]
                               ELSE NoResult] :
             x \in Summarize(r.title, r.text)}

\* if summarizer != nil { summary, _ = summarizer.Summarize(ctx, title, text) }:
\* the error is dropped
Summarizing(r) ==
    IF ~r.summarizer THEN {r}
    ELSE {[r EXCEPT !.stage = "Summarizing", !.summary = x.summary,
                    !.sumErr = x.err # ""] :
             x \in Summarize(r.title, r.text)}

\* category, tags, _ = summarizer.SuggestMetadata(ctx, title, text), which the
\* ingests call after Summarize
Suggesting(r) ==
    IF ~r.summarizer THEN {r}
    ELSE {[r EXCEPT !.sugCat = x.category, !.sugTags = x.tags,
                    !.sugErr = x.err # ""] :
             x \in SuggestMetadata(r.title, r.text)}

\* a stage after a stage: a run that has failed goes no further
Then(rs, Stage(_)) ==
    UNION {IF r.result.kind = "failed" THEN {r} ELSE Stage(r) : r \in rs}

(***************************************************************************)
(* AssociatingMetadata: the category, the tags, the task or activity       *)
(***************************************************************************)
\* after the tags: the switch on addType (cli_add), or the end
EnterAssoc(r) ==
    LET fl == r.flags
        nm == IF TrimSpace(fl.nm) # "" THEN TrimSpace(fl.nm)
              ELSE IF r.title # "" THEN r.title ELSE r.url
    IN IF r.op = "cli_add" /\ fl.type = "task"
       THEN [r EXCEPT !.pc = "task_create", !.name = nm, !.title = ""]
       ELSE IF r.op = "cli_add" /\ fl.type = "activity"
       THEN [r EXCEPT !.pc = "act_create", !.name = nm, !.title = ""]
       ELSE Complete(r)

\* the head of the loop over the tag names
NextTag(r) ==
    IF r.tagList = <<>>
    THEN EnterAssoc(r)
    ELSE [r EXCEPT !.pc = "tag_get", !.name = Head(r.tagList)]

\* the tag names the operation goes through:
\*   cli_add          parseTags(addTags), or the suggested tags if that is empty
\*   tui_saveMetadata the items of the tags input, trimmed and lower-cased
\*   tui_saveChanges  the items of the tags input, trimmed
EnterTags(r) ==
    LET flagged == parseTags(r.flags.tags)
        names == IF r.op = "cli_add"
                 THEN (IF Len(flagged) = 0
                       THEN SelectSeq(r.sugTags, LAMBDA t : t # "")
                       ELSE flagged)
                 ELSE MapNames(r.addTags, r.op # "tui_saveChanges")
    IN NextTag([r EXCEPT !.tagList = names, !.addTags = <<>>, !.sugTags = <<>>,
                         !.name = "", !.other = 0])

\* A mutant of EnterCategory in which the suggested category goes first.
EnterCategory_SuggestionFirst(r, category) ==
    LET flagged == TrimSpace(category)
        catName == IF r.op = "cli_add" /\ TrimSpace(r.sugCat) # ""
                   THEN TrimSpace(r.sugCat) ELSE flagged
    IN IF catName # ""
       THEN [r EXCEPT !.pc = "cat_get", !.name = catName, !.sugCat = ""]
       ELSE EnterTags([r EXCEPT !.sugCat = ""])

\* the category name the operation resolves:
\*   cli_add  the --category flag, or the suggested category if that is empty
\*   the TUI  the category input
EnterCategory(r, category) ==
    LET flagged == TrimSpace(category)
        catName == IF r.op = "cli_add" /\ flagged = ""
                   THEN TrimSpace(r.sugCat) ELSE flagged
    IN IF catName # ""
       THEN [r EXCEPT !.pc = "cat_get", !.name = catName, !.sugCat = ""]
       ELSE EnterTags([r EXCEPT !.sugCat = ""])


(***************************************************************************)
(* Steps of the operations                                                 *)
(***************************************************************************)
\* a step of p that leaves the operation in r2 and the database in d2
Step(p, r2, d2) ==
    /\ proc' = [proc EXCEPT ![p] = [r2 EXCEPT !.wrote = @ \/ d2 # db]]
    /\ db' = d2

\* a step of p in which a stage before the query has failed: no query is made
Fail(p, r2) == Step(p, Failed(r2, r2.result.err), db)

IsFailed(r) == r.result.kind = "failed"

\* the id of the Link row of url, 0 if there is none
StoredID(url) ==
    IF \E l \in db.links : l.url = url
    THEN (CHOOSE l \in db.links : l.url = url).id
    ELSE 0

\* what an operation keeps of the row it works on: existing.ID, existing.Status
Existing(row) == [id |-> row.id, status |-> row.status]

\* `lm add <url>`: runAdd calls addURL; the summarizer is nil without an API key
StartAdd(p) ==
    /\ p = CLI /\ Free(p) /\ opsStarted < MaxOps
    /\ \E url \in URLs, fl \in Flags :
         proc' = [proc EXCEPT ![p] =
                    [Idle EXCEPT !.op = "cli_add", !.pc = "dupcheck", !.url = url,
                                 !.summarizer = ui.summarizer, !.flags = fl]]
    /\ opsStarted' = opsStarted + 1
    /\ UNCHANGED <<sink, call, db, ui, fcall, server, ctxDone>>

\* `lm refetch <url>`: runRefetch calls refetchURL
StartRefetch(p) ==
    /\ p = CLI /\ Free(p) /\ opsStarted < MaxOps
    /\ \E url \in URLs :
         proc' = [proc EXCEPT ![p] =
                    [Idle EXCEPT !.op = "cli_refetch", !.pc = "refetch_get",
                                 !.url = url, !.summarizer = ui.summarizer]]
    /\ opsStarted' = opsStarted + 1
    /\ UNCHANGED <<sink, call, db, ui, fcall, server, ctxDone>>

\* linkProcessCompleteMsg of fetchLink for a URL that is stored already
ExistingMsg(row) ==
    [NoResult EXCEPT !.kind = "complete", !.linkID = row.id,
                     !.preview = row.content.String,
                     !.summary = row.summary.String]

\* the rest of fetchLink after the duplicate check: linkFetchedMsg or the error
FetchLinkStage(r) ==
    {IF IsFailed(r2) THEN Failed(r2, r2.result.err)
     ELSE [r2 EXCEPT !.pc = "msg", !.result = [NoResult EXCEPT !.kind = "fetched"]] :
        r2 \in Fetching(r)}

\* the duplicate check of addURL with the task of --type task created before
\* the run ends for a stored URL
DupCheck_Associate(p) ==
    LET r == [proc[p] EXCEPT !.stage = "DuplicateCheck",
                             !.atCheck = StoredID(proc[p].url)]
        g == GetLinkByURL(db, r.url)
    IN /\ proc[p].pc = "dupcheck"
       /\ IF g.err = ""
          THEN IF r.op = "cli_add"
               THEN LET c == CreateTask(db, r.url)
                    IN Step(p, [Return(r, [NoResult EXCEPT !.kind = "exists",
                                                          !.linkID = g.row.id])
                                  EXCEPT !.flags = r.flags],
                            IF r.flags.type = "task" THEN c.db ELSE db)
               ELSE Step(p, Return(r, ExistingMsg(g.row)), db)
          ELSE IF r.op = "cli_add"
          THEN Step(p, [r EXCEPT !.pc = "create"], db)
          ELSE \E r2 \in FetchLinkStage(r) : Step(p, r2, db)
       /\ UNCHANGED <<sink, call, ui, opsStarted, fcall, server, ctxDone>>

\* the duplicate check of addURL and of fetchLink; fetchLink goes on to
\* FetchURL and returns its message.  A run of `lm add` that ends here keeps
\* the flags it was given, for the properties to read.
DupCheck(p) ==
    LET r == [proc[p] EXCEPT !.stage = "DuplicateCheck",
                             !.atCheck = StoredID(proc[p].url)]
        g == GetLinkByURL(db, r.url)
    IN /\ proc[p].pc = "dupcheck"
       /\ IF g.err = ""
          THEN IF r.op = "cli_add"
               THEN Step(p, [Return(r, [NoResult EXCEPT !.kind = "exists",
                                                        !.linkID = g.row.id])
                               EXCEPT !.flags = r.flags], db)
               ELSE Step(p, Return(r, ExistingMsg(g.row)), db)
          ELSE IF r.op = "cli_add"
          THEN Step(p, [r EXCEPT !.pc = "create"], db)
          ELSE \E r2 \in FetchLinkStage(r) : Step(p, r2, db)
       /\ UNCHANGED <<sink, call, ui, opsStarted, fcall, server, ctxDone>>

\* the parameters of CreateLink and UpdateLink that the pipeline builds
LinkParams(r) ==
    [ID |-> r.link.id, Url |-> r.url, Title |-> NullString(r.title),
     Content |-> NullText(r.content), Summary |-> NullString(r.summary),
     Status |-> IF r.link = NoRow THEN "read_later" ELSE r.link.status]

\* linkProcessCompleteMsg of summarizeAndSave; an empty category becomes
\* "General" and the preview is the text before truncation
CompleteMsg(r) ==
    [NoResult EXCEPT !.kind = "complete", !.linkID = r.link.id,
                     !.preview = r.text, !.summary = r.summary,
                     !.category = IF r.sugCat = "" THEN "General" ELSE r.sugCat,
                     !.tags = r.sugTags]

\* what addURL does between the duplicate check and CreateLink, and what
\* summarizeAndSave does before CreateLink
CreateStages(r) ==
    IF r.op = "cli_add"
    THEN Then(Then(Then(Fetching(r), Extracting), Summarizing), Suggesting)
    ELSE Then(Summarizing(r), Suggesting)

\* the end of a step that has made the query CreateLink with result c
Created(p, r, c) ==
    LET r1 == [r EXCEPT !.stage = "Persisting", !.link = [id |-> c.row.id],
                        !.text = <<>>, !.content = <<>>]
    IN IF c.err # ""
       THEN Step(p, Wrapped([r EXCEPT !.stage = "Persisting"], "save failed", c.err),
                 c.db)
       ELSE IF r.op = "cli_add"
       THEN Step(p, EnterCategory(r1, r.flags.cat), c.db)
       ELSE Step(p, Return(r1, CompleteMsg([r EXCEPT !.link = c.row])), c.db)

\* A mutant of CreateStep that inserts the row before the stages have run,
\* with what they have produced so far.
CreateStep_Early(p) ==
    /\ proc[p].pc = "create"
    /\ \E r2 \in CreateStages(proc[p]) :
          LET c == CreateLink(db, LinkParams(r2))
          IN IF IsFailed(r2) THEN Step(p, Failed(r2, r2.result.err), c.db)
             ELSE Created(p, r2, c)
    /\ UNCHANGED <<sink, call, ui, opsStarted, fcall, server, ctxDone>>

\* Persisting: the stages, then CreateLink with what they have produced
CreateStep(p) ==
    /\ proc[p].pc = "create"
    /\ \E r2 \in CreateStages(proc[p]) :
          IF IsFailed(r2) THEN Fail(p, r2)
          ELSE Created(p, r2, CreateLink(db, LinkParams(r2)))
    /\ UNCHANGED <<sink, call, ui, opsStarted, fcall, server, ctxDone>>

\* refetchURL with the fetch before the lookup of the record
RefetchGet_FetchFirst(p) ==
    LET r == proc[p]
        g == GetLinkByURL(db, r.url)
    IN /\ r.pc = "refetch_get"
       /\ IF g.err # ""
          THEN \E r2 \in Fetching(r) :
                  Step(p, Failed(r2, "URL not found in database"), db)
          ELSE Step(p, [r EXCEPT !.pc = "fetched_at", !.link = Existing(g.row)], db)
       /\ UNCHANGED <<sink, call, ui, opsStarted, fcall, server, ctxDone>>

\* refetchURL: existing, err := GetLinkByURL(ctx, url)
RefetchGet(p) ==
    LET r == proc[p]
        g == GetLinkByURL(db, r.url)
    IN /\ r.pc = "refetch_get"
       /\ IF g.err # ""
          THEN Step(p, Failed(r, "URL not found in database"), db)
          ELSE Step(p, [r EXCEPT !.pc = "fetched_at", !.link = Existing(g.row)], db)
       /\ UNCHANGED <<sink, call, ui, opsStarted, fcall, server, ctxDone>>

\* refetchURL: FetchURL, then _ = UpdateLinkFetchedAt;
\* reloadContent: UpdateLinkFetchedAt is its last query
FetchedAt(p) ==
    LET r == proc[p]
        d2 == UpdateLinkFetchedAt(db, r.link.id)
    IN /\ r.pc = "fetched_at"
       /\ IF r.op = "tui_reload"
          THEN Step(p, Complete(r), d2)
          ELSE \E r2 \in Fetching(r) :
                  IF IsFailed(r2) THEN Fail(p, r2)
                  ELSE Step(p, [r2 EXCEPT !.pc = IF r.summarizer THEN "summarized_at"
                                                 ELSE "update"], d2)
       /\ UNCHANGED <<sink, call, ui, opsStarted, fcall, server, ctxDone>>

\* refetchURL with a summarizer: ExtractText, Summarize, then
\* _ = UpdateLinkSummarizedAt
SummarizedAt(p) ==
    LET r == proc[p]
    IN /\ r.pc = "summarized_at"
       /\ \E r2 \in Then(Extracting(r), Summarizing) :
             IF IsFailed(r2) THEN Fail(p, r2)
             ELSE Step(p, [r2 EXCEPT !.pc = "update"],
                       UpdateLinkSummarizedAt(db, r.link.id))
       /\ UNCHANGED <<sink, call, ui, opsStarted, fcall, server, ctxDone>>

\* what leads to UpdateLink: all of reloadContent's stages; ExtractText in a
\* refetchURL without summarizer; nothing in saveChanges
UpdateStages(r) ==
    IF r.op = "tui_reload" THEN Then(Then(Fetching(r), Extracting), Summarizing)
    ELSE IF r.op = "cli_refetch" /\ r.html # NoBody THEN Extracting(r)
    ELSE {r}

\* UpdateLink in refetchURL, reloadContent and saveChanges
UpdateStep(p) ==
    /\ proc[p].pc = "update"
    /\ \E r \in UpdateStages(proc[p]) :
          LET arg == IF r.op = "tui_saveChanges"
                     THEN [LinkParams(r) EXCEPT !.Title = r.link.title,
                                                !.Content = r.link.content]
                     ELSE LinkParams(r)
              u == UpdateLink(db, arg)
              r1 == [r EXCEPT !.title = "", !.text = <<>>, !.content = <<>>,
                              !.link = [id |-> r.link.id]]
          IN IF IsFailed(r) THEN Fail(p, r)
             ELSE IF u.err # "" THEN Step(p, Failed(r, "failed to update link"), u.db)
             ELSE IF r.op = "cli_refetch" THEN Step(p, Complete(r1), u.db)
             ELSE IF r.op = "tui_reload"
             THEN Step(p, [r1 EXCEPT !.pc = "fetched_at"], u.db)
             ELSE Step(p, EnterCategory(r1, r.name), u.db)
    /\ UNCHANGED <<sink, call, ui, opsStarted, fcall, server, ctxDone>>

\* cat, err := GetCategoryByName(ctx, catName)
CatGet(p) ==
    LET r == proc[p]
        g == GetCategoryByName(db, r.name)
    IN /\ r.pc = "cat_get"
       /\ IF g.err = ""
          THEN Step(p, [r EXCEPT !.pc = "cat_link", !.other = g.row.id], db)
          ELSE Step(p, [r EXCEPT !.pc = "cat_create"], db)
       /\ UNCHANGED <<sink, call, ui, opsStarted, fcall, server, ctxDone>>

\* cat, err = CreateCategory(...): addURL warns and goes on to the tags, the
\* TUI commands return the error
CatCreate(p) ==
    LET r == proc[p]
        c == CreateCategory(db, r.name)
    IN /\ r.pc = "cat_create"
       /\ IF c.err = ""
          THEN Step(p, [r EXCEPT !.pc = "cat_link", !.other = c.row.id], c.db)
          ELSE IF r.op = "cli_add"
          THEN Step(p, EnterTags(r), c.db)
          ELSE Step(p, Failed(r, "category save failed"), c.db)
       /\ UNCHANGED <<sink, call, ui, opsStarted, fcall, server, ctxDone>>

\* A mutant of Ignored in which no caller drops the error of a link insert.
Ignored_Strict(r, e) == e = ""

\* whether the caller of LinkCategory / LinkTag goes on after the error e:
\* addURL and saveMetadata drop it, saveChanges drops only the duplicate
Ignored(r, e) ==
    \/ e = ""
    \/ r.op # "tui_saveChanges"
    \/ e = ErrUniquePair

\* LinkCategory(ctx, {LinkID, CategoryID})
CatLink(p) ==
    LET r == proc[p]
        c == LinkCategory(db, r.link.id, r.other)
    IN /\ r.pc = "cat_link"
       /\ IF Ignored(r, c.err)
          THEN Step(p, EnterTags(r), c.db)
          ELSE Step(p, Failed(r, "failed to link category"), c.db)
       /\ UNCHANGED <<sink, call, ui, opsStarted, fcall, server, ctxDone>>

\* t, err := GetTagByName(ctx, tagName)
TagGet(p) ==
    LET r == proc[p]
        g == GetTagByName(db, r.name)
    IN /\ r.pc = "tag_get"
       /\ IF g.err = ""
          THEN Step(p, [r EXCEPT !.pc = "tag_link", !.other = g.row.id], db)
          ELSE Step(p, [r EXCEPT !.pc = "tag_create"], db)
       /\ UNCHANGED <<sink, call, ui, opsStarted, fcall, server, ctxDone>>

\* t, err = CreateTag(ctx, tagName): addURL warns and continues with the next
\* tag, the TUI commands return the error
TagCreate(p) ==
    LET r == proc[p]
        c == CreateTag(db, r.name)
    IN /\ r.pc = "tag_create"
       /\ IF c.err = ""
          THEN Step(p, [r EXCEPT !.pc = "tag_link", !.other = c.row.id], c.db)
          ELSE IF r.op = "cli_add"
          THEN Step(p, NextTag([r EXCEPT !.tagList = Tail(@), !.name = ""]), c.db)
          ELSE Step(p, Failed(r, "tag save failed"), c.db)
       /\ UNCHANGED <<sink, call, ui, opsStarted, fcall, server, ctxDone>>

\* LinkTag(ctx, {LinkID, TagID}), then the next tag of the loop
TagLink(p) ==
    LET r == proc[p]
        c == LinkTag(db, r.link.id, r.other)
    IN /\ r.pc = "tag_link"
       /\ IF Ignored(r, c.err)
          THEN Step(p, NextTag([r EXCEPT !.tagList = Tail(@), !.name = "",
                                            !.other = 0]), c.db)
          ELSE Step(p, Failed(r, "failed to link tag"), c.db)
       /\ UNCHANGED <<sink, call, ui, opsStarted, fcall, server, ctxDone>>

\* case "task": task, taskErr := CreateTask(ctx, {Name: taskName})
TaskCreate(p) ==
    LET r == proc[p]
        c == CreateTask(db, r.name)
    IN /\ r.pc = "task_create"
       /\ Step(p, [r EXCEPT !.pc = "task_link", !.other = c.row.id, !.name = ""], c.db)
       /\ UNCHANGED <<sink, call, ui, opsStarted, fcall, server, ctxDone>>

\* _ = LinkTask(ctx, {LinkID, TaskID})
TaskLink(p) ==
    LET r == proc[p]
    IN /\ r.pc = "task_link"
       /\ Step(p, Complete(r), LinkTask(db, r.link.id, r.other).db)
       /\ UNCHANGED <<sink, call, ui, opsStarted, fcall, server, ctxDone>>

\* case "activity": activity, actErr := CreateActivity(ctx, {Name: actName})
ActCreate(p) ==
    LET r == proc[p]
        c == CreateActivity(db, r.name)
    IN /\ r.pc = "act_create"
       /\ Step(p, [r EXCEPT !.pc = "act_link", !.other = c.row.id, !.name = ""], c.db)
       /\ UNCHANGED <<sink, call, ui, opsStarted, fcall, server, ctxDone>>

\* _ = LinkActivity(ctx, {LinkID, ActivityID})
ActLink(p) ==
    LET r == proc[p]
    IN /\ r.pc = "act_link"
       /\ Step(p, Complete(r), LinkActivity(db, r.link.id, r.other).db)
       /\ UNCHANGED <<sink, call, ui, opsStarted, fcall, server, ctxDone>>

(***************************************************************************)
(* The Edit-Link dialog and the Links tab (editlink.go)                    *)
(***************************************************************************)
\* ctrl+r in the Edit-Link dialog: reloadContent on the link of the dialog
StartReload(p) ==
    /\ p = TUI /\ Free(p) /\ ~ui.show /\ opsStarted < MaxOps
    /\ \E l \in db.links :
         proc' = [proc EXCEPT ![p] =
                    [Idle EXCEPT !.op = "tui_reload", !.pc = "update", !.url = l.url,
                                 !.summarizer = ui.summarizer, !.link = Existing(l),
                                 !.held = l]]
    /\ opsStarted' = opsStarted + 1
    /\ UNCHANGED <<sink, call, db, ui, fcall, server, ctxDone>>

\* ctrl+s in the Edit-Link dialog: saveChanges with the link the dialog holds
\* and the values of its summary, category and tags inputs
StartSaveChanges(p) ==
    /\ p = TUI /\ Free(p) /\ ~ui.show /\ opsStarted < MaxOps
    /\ \E l \in db.links, md \in Metadata :
         \E summary \in {l.summary.String, "edited"} :
            proc' = [proc EXCEPT ![p] =
                       [Idle EXCEPT !.op = "tui_saveChanges", !.pc = "update",
                                    !.url = l.url, !.summary = summary,
                                    !.link = [id |-> l.id, status |-> l.status,
                                              title |-> l.title, content |-> l.content],
                                    !.name = md[1], !.addTags = md[2]]]
    /\ opsStarted' = opsStarted + 1
    /\ UNCHANGED <<sink, call, db, ui, fcall, server, ctxDone>>

\* ctrl+s in the Edit-Link dialog whose reload has ended: saveChanges with
\* m.link, which is the row the dialog was opened with (no message of the
\* dialog assigns m.link), and the inputs; reloadContentCompleteMsg has put a
\* non-empty summary of the reload into the summary input
SaveAfterReload(p) ==
    /\ p = TUI /\ ~ui.show /\ opsStarted < MaxOps
    /\ proc[p].op = "tui_reload" /\ proc[p].pc = "done"
    /\ LET r == proc[p]
           h == r.held
           shown == IF r.result.kind = "complete" /\ r.result.summary # ""
                    THEN r.result.summary ELSE h.summary.String
       IN \E md \in Metadata, summary \in {shown, "edited"} :
             proc' = [proc EXCEPT ![p] =
                        [Idle EXCEPT !.op = "tui_saveChanges", !.pc = "update",
                                     !.url = r.url, !.summary = summary,
                                     !.link = [id |-> h.id, status |-> h.status,
                                               title |-> h.title, content |-> h.content],
                                     !.name = md[1], !.addTags = md[2],
                                     !.held = h]]
    /\ opsStarted' = opsStarted + 1
    /\ UNCHANGED <<sink, call, db, ui, fcall, server, ctxDone>>

\* LinksModel.deleteLink: DeleteLink(ctx, id) on a link of the list
DeleteLinkCmd ==
    /\ ~ui.show /\ opsStarted < MaxOps
    /\ \E l \in db.links : db' = DeleteLink(db, l.id)
    /\ opsStarted' = opsStarted + 1
    /\ UNCHANGED <<sink, call, proc, ui, fcall, server, ctxDone>>

(***************************************************************************)
(* The Categories and Tags tabs (categories.go, tags.go)                   *)
(***************************************************************************)
\* CategoriesModel.deleteCategory: DeleteCategory(ctx, id) on the category
\* under the cursor
DeleteCategoryCmd ==
    /\ ~ui.show /\ opsStarted < MaxOps
    /\ \E c \in db.categories : db' = DeleteCategory(db, c.id)
    /\ opsStarted' = opsStarted + 1
    /\ UNCHANGED <<sink, call, proc, ui, fcall, server, ctxDone>>

\* TagsModel.deleteTag: DeleteTag(ctx, id) on the tag under the cursor
DeleteTagCmd ==
    /\ ~ui.show /\ opsStarted < MaxOps
    /\ \E t \in db.tags : db' = DeleteTag(db, t.id)
    /\ opsStarted' = opsStarted + 1
    /\ UNCHANGED <<sink, call, proc, ui, fcall, server, ctxDone>>

(***************************************************************************)
(* The Tasks and Activities tabs (tasks.go, activities.go)                 *)
(***************************************************************************)
\* return errMsg{err: err}: the error of the query as it is
ErrMsg(r, e) ==
    Return(r, [NoResult EXCEPT !.kind = "failed", !.err = e, !.cause = e])

\* the command that links the link of a linkProcessCompleteMsg to the row
\* under the cursor; c is the result of its query
LinkedTo(op, linkID, c) ==
    LET r == [Idle EXCEPT !.op = op, !.link = [id |-> linkID]]
    IN Step(TUI, IF c.err # "" THEN ErrMsg(r, c.err) ELSE Complete(r), c.db)

\* TasksModel: linkProcessCompleteMsg in tasksAddLinkMode starts
\* linkToTask(taskID, msg.linkID).  The message carries the id of a link that
\* its ingest has created or found, which may be deleted by now.
LinkToTask ==
    /\ Free(TUI) /\ ~ui.show /\ opsStarted < MaxOps
    /\ \E t \in db.tasks, linkID \in 1..db.seq_links :
          LinkedTo("tui_linkToTask", linkID, LinkTask(db, linkID, t.id))
    /\ opsStarted' = opsStarted + 1
    /\ UNCHANGED <<sink, call, ui, fcall, server, ctxDone>>

\* ActivitiesModel: linkProcessCompleteMsg in activitiesAddLinkMode starts
\* linkToActivity(activityID, msg.linkID)
LinkToActivity ==
    /\ Free(TUI) /\ ~ui.show /\ opsStarted < MaxOps
    /\ \E a \in db.activities, linkID \in 1..db.seq_links :
          LinkedTo("tui_linkToActivity", linkID, LinkActivity(db, linkID, a.id))
    /\ opsStarted' = opsStarted + 1
    /\ UNCHANGED <<sink, call, ui, fcall, server, ctxDone>>

(***************************************************************************)
(* The Add-Link modal (part_008 Model, addlink.go AddLinkModel).  Of the   *)
(* form, the inputs and the fields that decide what a key or a message     *)
(* does are modelled; the contents of the viewports are not.               *)
(***************************************************************************)
\* NewAddLinkModel: empty inputs, nothing in progress
NewForm ==
    [show |-> TRUE, summarizer |-> FALSE,
     url |-> "", category |-> "", tags |-> <<>>,
     isProcessing |-> FALSE, pendingSave |-> FALSE, linkID |-> 0,
     processStage |-> "",
     \* history of the form, read by the properties only: the URL of its last
     \* fetchLink, the URLs whose linkProcessCompleteMsg it has handled
     submitted |-> "", completed |-> {}]

\* showAddLinkModal = false.  The form of a closed modal is not read again:
\* opening the modal replaces it.
ClosedForm(m) == [NewForm EXCEPT !.show = FALSE, !.summarizer = m.summarizer]

\* the chains of fetchLink that are under way when the modal closes
MarkClosed(pr) ==
    [p \in Procs |-> IF pr[p].submitted # "" /\ pr[p].pc \notin {"idle", "done"}
                     THEN [pr[p] EXCEPT !.closed = TRUE] ELSE pr[p]]

\* openAddLinkModalMsg: m.addLinkModel = NewAddLinkModel(); showAddLinkModal = true
OpenModal ==
    /\ ~ui.show
    /\ ui' = [NewForm EXCEPT !.summarizer = ui.summarizer]
    /\ UNCHANGED <<sink, call, db, proc, opsStarted, fcall, server, ctxDone>>

\* esc in the modal, or its Cancel button: showAddLinkModal = false
CloseModal ==
    /\ ui.show
    /\ ui' = ClosedForm(ui)
    /\ proc' = MarkClosed(proc)
    /\ UNCHANGED <<sink, call, db, opsStarted, fcall, server, ctxDone>>

\* the command fetchLink(url, ...) at its first query
FetchLinkCmd(m) ==
    [Idle EXCEPT !.op = "tui_ingest", !.pc = "dupcheck", !.url = m.url,
                 !.summarizer = m.summarizer, !.submitted = m.url]

\* the submit branches of "enter": the form in progress
Submitted(m, pending) ==
    [m EXCEPT !.isProcessing = TRUE, !.processStage = "Fetching...",
              !.pendingSave = IF pending THEN TRUE ELSE @,
              !.submitted = m.url]

\* whether the store d holds every row that saveMetadata makes for the link,
\* the category input and the tags input: the category and the tags of these
\* names, each linked to the link
MetadataStored(d, linkID, category, tags) ==
    LET names == MapNames(tags, TRUE)
    IN /\ TrimSpace(category) # "" =>
             \E c \in d.categories :
                 c.name = TrimSpace(category) /\ <<linkID, c.id>> \in d.link_categories
       /\ \A i \in 1..Len(names) :
             \E t \in d.tags : t.name = names[i] /\ <<linkID, t.id>> \in d.link_tags

\* the command saveMetadata(db) of the form m, at its first query.  again
\* records that the store holds the rows of the call already, since the number
\* of operations started when the call begins.
SaveMetadataCmd(m) ==
    EnterCategory([Idle EXCEPT !.op = "tui_saveMetadata", !.url = m.url,
                               !.summarizer = m.summarizer,
                               !.link = [id |-> m.linkID], !.addTags = m.tags,
                               !.again = MetadataStored(db, m.linkID, m.category,
                                                        m.tags),
                               !.since = opsStarted],
                  m.category)

\* "enter" in the URL input, a URL typed
EnterInput(p) ==
    /\ Slot(p) /\ opsStarted < MaxOps
    /\ ui.show /\ ~ui.isProcessing
    /\ \E url \in URLs :
         LET m == [ui EXCEPT !.url = url]
         IN /\ ui' = Submitted(m, FALSE)
            /\ proc' = [proc EXCEPT ![p] = FetchLinkCmd(m)]
    /\ opsStarted' = opsStarted + 1
    /\ UNCHANGED <<sink, call, db, fcall, server, ctxDone>>

\* "enter" on the Save button, the inputs filled in: fetchLink with
\* pendingSave when the form has no link yet, saveMetadata when it has
EnterSave(p) ==
    /\ Slot(p) /\ opsStarted < MaxOps
    /\ ui.show /\ ~ui.isProcessing
    /\ \E url \in URLs, md \in Metadata \cup {<<ui.category, ui.tags>>} :
         LET m == [ui EXCEPT !.url = url, !.category = md[1], !.tags = md[2]]
         IN IF m.linkID = 0
            THEN /\ ui' = Submitted(m, TRUE)
                 /\ proc' = [proc EXCEPT ![p] = FetchLinkCmd(m)]
            ELSE /\ ui' = m
                 /\ proc' = [proc EXCEPT ![p] =
                               [SaveMetadataCmd(m) EXCEPT !.since = opsStarted + 1]]
    /\ opsStarted' = opsStarted + 1
    /\ UNCHANGED <<sink, call, db, fcall, server, ctxDone>>

\* case linkProcessCompleteMsg: the fields of the form, and the auto-fill of
\* the empty inputs
OnComplete(m, msg) ==
    [m EXCEPT !.processStage = "", !.isProcessing = FALSE,
              !.linkID = msg.linkID,
              !.category = IF @ = "" /\ msg.category # "" THEN msg.category ELSE @,
              !.tags = IF @ = <<>> /\ Len(msg.tags) > 0 THEN msg.tags ELSE @,
              !.pendingSave = FALSE]

\* the command extractLink(url, html): linkExtractedMsg or the error
ExtractLinkStage(r) ==
    {IF IsFailed(r2) THEN Failed(r2, r2.result.err)
     ELSE [r2 EXCEPT !.pc = "msg", !.result = [NoResult EXCEPT !.kind = "extracted"]] :
        r2 \in Extracting(r)}

\* the goroutine of a command whose last message Update has handled
Handled(r) ==
    [Idle EXCEPT !.pc = "done", !.submitted = r.submitted, !.events = r.events,
                 !.closed = r.closed]

\* Model.Update hands the message of a finished command to AddLinkModel.Update
\* while the modal is shown, whichever form is in it; otherwise the message
\* reaches no form and no further command is started.  The message is gone
\* once it is handled.
Deliver(p) ==
    LET r == proc[p]
        msg == r.result
        rE == [r EXCEPT !.events = Append(@, msg.kind)]
    IN /\ r.pc = "msg"
       /\ IF ~ui.show
          THEN /\ proc' = [proc EXCEPT ![p] = Handled(r)]
               /\ ui' = ui
          ELSE CASE msg.kind = "fetched" ->
                      /\ ui' = [ui EXCEPT !.processStage = "Extracting..."]
                      /\ \E r2 \in ExtractLinkStage(rE) : proc' = [proc EXCEPT ![p] = r2]
                 [] msg.kind = "extracted" ->
                      /\ ui' = [ui EXCEPT !.processStage = "Summarizing..."]
                      /\ proc' = [proc EXCEPT ![p] = [rE EXCEPT !.pc = "create",
                                                               !.result = NoResult]]
                 [] msg.kind = "complete" ->
                      /\ ui' = [OnComplete(ui, msg) EXCEPT !.completed = @ \cup {r.url}]
                      /\ proc' = [proc EXCEPT ![p] =
                                    IF ui.pendingSave THEN SaveMetadataCmd(ui')
                                    ELSE Handled(rE)]
                 [] msg.kind = "failed" ->
                      /\ ui' = [ui EXCEPT !.isProcessing = FALSE, !.processStage = ""]
                      /\ proc' = [proc EXCEPT ![p] = Handled(rE)]
                 [] msg.kind = "saved" ->
                      /\ ui' = ClosedForm(ui)
                      /\ proc' = [MarkClosed(proc) EXCEPT ![p] = Handled(rE)]
       /\ UNCHANGED <<sink, call, db, opsStarted, fcall, server, ctxDone>>

(***************************************************************************)
(* A call of FetchURL on its own, against a server whose answer to each    *)
(* request is fixed in advance and a context that can be cancelled         *)
(***************************************************************************)
NetErr == [kind |-> "neterr", status |-> 0, body |-> NoBody]

\* FetchURL(ctx, url) is called
FetchCall ==
    /\ fcall.pc = "idle"
    /\ \E url \in URLs : fcall' = FetchStart(url)
    /\ UNCHANGED <<sink, call, db, proc, ui, opsStarted, server, ctxDone>>

\* one pass of the loop: the request and, after a 202 on the first attempt,
\* the wait of 750 ms, during which the context may be cancelled
FetchLoop ==
    /\ fcall.pc = "request"
    /\ LET g == FetchRequest(fcall, server[fcall.requests + 1], ctxDone)
       IN IF g.pc = "wait"
          THEN \E c \in {ctxDone, TRUE} :
                  /\ fcall' = FetchWait(g, c)
                  /\ ctxDone' = c
          ELSE /\ fcall' = g
               /\ ctxDone' = ctxDone
    /\ UNCHANGED <<sink, call, db, proc, ui, opsStarted, server>>

\* the caller cancels the context
Cancel ==
    /\ ~ctxDone /\ fcall.pc # "done"
    /\ ctxDone' = TRUE
    /\ UNCHANGED <<sink, call, db, proc, ui, opsStarted, fcall, server>>

(***************************************************************************)
(* A call of a function of the services on its own                         *)
(***************************************************************************)
NoCall == [fn |-> "none"]

RECURSIVE Strings(_, _)
\* the strings of at most n characters over an alphabet
Strings(alphabet, n) ==
    IF n = 0 THEN {<<>>}
    ELSE LET shorter == Strings(alphabet, n - 1)
         IN shorter \cup {Append(t, c) : t \in shorter, c \in alphabet}

\* extractor.TruncateText(text, maxLength) is called
TruncateCall ==
    /\ \E text \in Strings({"a", " "}, MaxText), maxLength \in 0..(MaxText + 1) :
          call' = [fn |-> "TruncateText", text |-> text, maxLength |-> maxLength,
                   out |-> TruncateText(text, maxLength)]
    /\ UNCHANGED <<sink, db, proc, ui, opsStarted, fcall, server, ctxDone>>

\* lines of a response of the LLM: "Category: Te", "Category:X",
\* "Tags: a, B ", "Tags:", "hi"
ResponseLines ==
    {CategoryKey \o <<" ", "T", "e">>, CategoryKey \o <<"X">>,
     TagsKey \o <<" ", "a", ",", " ", "B", " ">>, TagsKey, <<"h", "i">>}

\* responses of at most two lines
Responses ==
    {<<>>} \cup ResponseLines
         \cup {l1 \o <<NL>> \o l2 : l1 \in ResponseLines, l2 \in ResponseLines}

\* parseMetadataResponse(response) is called
ParseCall ==
    /\ \E response \in Responses :
          call' = [fn |-> "parseMetadataResponse", response |-> response,
                   out |-> parseMetadataResponse(response)]
    /\ UNCHANGED <<sink, db, proc, ui, opsStarted, fcall, server, ctxDone>>

\* the selectors of the content area, in the order of ExtractText's list
Selectors ==
    <<"article", "main", "[role=main]", ".content", "#content", ".post",
      ".entry-content">>

\* the elements of a page that are left after the Remove of the noisy ones,
\* in document order, each given by the selectors it matches
Documents ==
    UNION {[1..n -> {{Selectors[k]} : k \in 1..Len(Selectors)} \cup {{}}] :
              n \in 0..MaxElements}

\* doc.Find("article, main, [role=main], ..."): the elements that match any
\* selector of the group, in document order
Find(doc) == {i \in 1..Len(doc) : \E k \in 1..Len(Selectors) : Selectors[k] \in doc[i]}

\* mainContent := doc.Find(...).First(); the element whose HTML is converted,
\* 0 for doc.Find("body") when mainContent.Length() is 0
mainContent(doc) ==
    IF Find(doc) = {} THEN 0
    ELSE CHOOSE i \in Find(doc) : \A j \in Find(doc) : i <= j

\* ExtractText selects the content area of a page
SelectCall ==
    /\ \E doc \in Documents :
          call' = [fn |-> "mainContent", doc |-> doc, out |-> mainContent(doc)]
    /\ UNCHANGED <<sink, db, proc, ui, opsStarted, fcall, server, ctxDone>>

\* ExtractText, come to its last statement with the Markdown text md of the
\* page, returns the text
NormalizeCall ==
    /\ call.fn = "ConvertString"
    /\ call' = [fn |-> "ExtractText", md |-> call.md, out |-> NormalizedText(call.md)]
    /\ UNCHANGED <<sink, db, proc, ui, opsStarted, fcall, server, ctxDone>>

(***************************************************************************)
(* MemorySink (internal/logging/sink.go): the buffer of the log panel and  *)
(* the goroutines that emit to it and read it                              *)
(***************************************************************************)
DefaultMaxEntries == 500

Goroutines == {"g1", "g2"}

\* a goroutine outside the sink; result, seen and returned are of its last
\* call of Entries (seen: the number of events emitted when it took the lock)
SinkIdle == [pc |-> "idle", msg |-> 0, result |-> <<>>, seen |-> 0, returned |-> FALSE]

\* NewMemorySink(maxSize); events and emitted are history: the events
\* rendered so far, and the events in the order of their append
NewMemorySink(maxSize) ==
    [given |-> maxSize,
     maxSize |-> IF maxSize <= 0 THEN DefaultMaxEntries ELSE maxSize,
     entries |-> <<>>, mu |-> "",
     events |-> 0, emitted |-> <<>>,
     g |-> [x \in Goroutines |-> SinkIdle]]

\* the sizes a sink is constructed with
SinkSizes == {-1, 0, 1, 2}

\* if len(s.entries) > s.maxSize { s.entries = s.entries[len-maxSize:] },
\* keeping the first entries instead
Trimmed_Oldest(entries, maxSize) ==
    IF Len(entries) > maxSize THEN SubSeq(entries, 1, maxSize) ELSE entries

\* if len(s.entries) > s.maxSize { s.entries = s.entries[len-maxSize:] }
Trimmed(entries, maxSize) ==
    IF Len(entries) > maxSize
    THEN SubSeq(entries, Len(entries) - maxSize + 1, Len(entries))
    ELSE entries

\* Emit is called: msg := event.RenderMessage(), before the lock
EmitCall(g) ==
    /\ sink.g[g].pc = "idle" /\ sink.events < MaxEmits
    /\ sink' = [sink EXCEPT !.events = @ + 1,
                            !.g[g].pc = "emit_lock", !.g[g].msg = sink.events + 1]
    /\ UNCHANGED <<db, proc, ui, opsStarted, fcall, server, ctxDone, call>>

\* s.mu.Lock() of Emit
EmitLock(g) ==
    /\ sink.g[g].pc = "emit_lock" /\ sink.mu = ""
    /\ sink' = [sink EXCEPT !.mu = g, !.g[g].pc = "emit_append"]
    /\ UNCHANGED <<db, proc, ui, opsStarted, fcall, server, ctxDone, call>>

\* s.entries = append(s.entries, Entry{...})
EmitAppend(g) ==
    /\ sink.g[g].pc = "emit_append"
    /\ sink' = [sink EXCEPT !.entries = Append(@, sink.g[g].msg),
                            !.emitted = Append(@, sink.g[g].msg),
                            !.g[g].pc = "emit_trim"]
    /\ UNCHANGED <<db, proc, ui, opsStarted, fcall, server, ctxDone, call>>

\* the trim of Emit and its return, with the deferred s.mu.Unlock()
EmitTrim(g) ==
    /\ sink.g[g].pc = "emit_trim"
    /\ sink' = [sink EXCEPT !.entries = Trimmed(@, sink.maxSize), !.mu = "",
                            !.g[g].pc = "idle", !.g[g].msg = 0]
    /\ UNCHANGED <<db, proc, ui, opsStarted, fcall, server, ctxDone, call>>

\* Entries is called: s.mu.Lock()
EntriesLock(g) ==
    /\ sink.g[g].pc = "idle" /\ sink.mu = ""
    /\ sink' = [sink EXCEPT !.mu = g,
                            !.g[g] = [SinkIdle EXCEPT !.pc = "entries_copy",
                                                      !.seen = Len(sink.emitted)]]
    /\ UNCHANGED <<db, proc, ui, opsStarted, fcall, server, ctxDone, call>>

\* result := make([]Entry, len(s.entries)); copy(result, s.entries)
EntriesCopy(g) ==
    /\ sink.g[g].pc = "entries_copy"
    /\ sink' = [sink EXCEPT !.g[g].pc = "entries_return", !.g[g].result = sink.entries]
    /\ UNCHANGED <<db, proc, ui, opsStarted, fcall, server, ctxDone, call>>

\* return result, with the deferred s.mu.Unlock()
EntriesReturn(g) ==
    /\ sink.g[g].pc = "entries_return"
    /\ sink' = [sink EXCEPT !.mu = "", !.g[g].pc = "idle", !.g[g].returned = TRUE]
    /\ UNCHANGED <<db, proc, ui, opsStarted, fcall, server, ctxDone, call>>

(***************************************************************************)
(* Specifications                                                          *)
(***************************************************************************)
\* the program on an empty database, no call of FetchURL on its own
Init ==
    /\ db = EmptyDB
    /\ proc = [p \in Procs |-> Idle]
    /\ ui \in {ClosedForm([summarizer |-> b]) : b \in BOOLEAN}
    /\ opsStarted = 0
    /\ fcall = FetchIdle
    /\ server = [i \in 1..MaxAttempts |-> NetErr]
    /\ ctxDone = FALSE
    /\ call = NoCall
    /\ sink = NewMemorySink(DefaultMaxEntries)

Next ==
    \/ \E p \in Procs :
         \/ StartAdd(p) \/ StartRefetch(p) \/ StartReload(p) \/ StartSaveChanges(p)
         \/ EnterInput(p) \/ EnterSave(p) \/ Deliver(p)
         \/ DupCheck(p) \/ RefetchGet(p) \/ FetchedAt(p) \/ SummarizedAt(p)
         \/ CreateStep(p) \/ UpdateStep(p)
         \/ CatGet(p) \/ CatCreate(p) \/ CatLink(p)
         \/ TagGet(p) \/ TagCreate(p) \/ TagLink(p)
         \/ TaskCreate(p) \/ TaskLink(p) \/ ActCreate(p) \/ ActLink(p)
    \/ DeleteLinkCmd
    \/ DeleteCategoryCmd
    \/ DeleteTagCmd
    \/ LinkToTask
    \/ LinkToActivity
    \/ OpenModal
    \/ CloseModal

Spec == Init /\ [][Next]_vars

\* one call of FetchURL; the pipeline stays idle
InitFetch ==
    /\ db = EmptyDB
    /\ proc = [p \in Procs |-> Idle]
    /\ ui = ClosedForm([summarizer |-> FALSE])
    /\ opsStarted = 0
    /\ fcall = FetchIdle
    /\ server \in [1..MaxAttempts -> Outcomes]
    /\ ctxDone = FALSE
    /\ call = NoCall
    /\ sink = NewMemorySink(DefaultMaxEntries)

NextFetch == FetchCall \/ FetchLoop \/ Cancel

SpecFetch == InitFetch /\ [][NextFetch]_vars

\* the same, where a call that has begun goes on: client.Do returns (the
\* client has a Timeout of 30 s) and the timer of the wait fires
SpecFetchLive == SpecFetch /\ WF_vars(FetchLoop)

\* runs of `lm add` and `lm refetch` on an empty database, one after the
\* other, where a server serves the long document too
InitLong ==
    /\ db = EmptyDB
    /\ proc = [p \in Procs |-> Idle]
    /\ ui \in {ClosedForm([summarizer |-> b]) : b \in BOOLEAN}
    /\ opsStarted = 0
    /\ fcall = FetchIdle
    /\ server = [i \in 1..MaxAttempts |->
                   [kind |-> "response", status |-> 200, body |-> LongBody]]
    /\ ctxDone = FALSE
    /\ call = NoCall
    /\ sink = NewMemorySink(DefaultMaxEntries)

NextLong ==
    \/ StartAdd(CLI) \/ StartRefetch(CLI)
    \/ DupCheck(CLI) \/ RefetchGet(CLI) \/ FetchedAt(CLI) \/ SummarizedAt(CLI)
    \/ CreateStep(CLI) \/ UpdateStep(CLI)
    \/ CatGet(CLI) \/ CatCreate(CLI) \/ CatLink(CLI)
    \/ TagGet(CLI) \/ TagCreate(CLI) \/ TagLink(CLI)
    \/ TaskCreate(CLI) \/ TaskLink(CLI) \/ ActCreate(CLI) \/ ActLink(CLI)

SpecLong == InitLong /\ [][NextLong]_vars

\* the Edit-Link dialog, opened on the one link of a store: a link that an
\* ingest has stored when its page had another title and text than now
InitEdit ==
    /\ db \in {CreateLink(EmptyDB, [Url |-> url, Title |-> NullString("Old"),
                                    Content |-> NullText(<<"o", "l", "d">>),
                                    Summary |-> NullString(summary),
                                    Status |-> "read_later"]).db :
                   url \in URLs, summary \in {"", "sum"}}
    /\ proc = [p \in Procs |-> Idle]
    /\ ui \in {ClosedForm([summarizer |-> b]) : b \in BOOLEAN}
    /\ opsStarted = 0
    /\ fcall = FetchIdle
    /\ server = [i \in 1..MaxAttempts |-> NetErr]
    /\ ctxDone = FALSE
    /\ call = NoCall
    /\ sink = NewMemorySink(DefaultMaxEntries)

NextEdit ==
    \/ StartReload(TUI) \/ StartSaveChanges(TUI) \/ SaveAfterReload(TUI)
    \/ UpdateStep(TUI) \/ FetchedAt(TUI)
    \/ CatGet(TUI) \/ CatCreate(TUI) \/ CatLink(TUI)
    \/ TagGet(TUI) \/ TagCreate(TUI) \/ TagLink(TUI)

SpecEdit == InitEdit /\ [][NextEdit]_vars

\* calls of the functions of the services; the pipeline stays idle
InitCalls ==
    /\ db = EmptyDB
    /\ proc = [p \in Procs |-> Idle]
    /\ ui = ClosedForm([summarizer |-> FALSE])
    /\ opsStarted = 0
    /\ fcall = FetchIdle
    /\ server = [i \in 1..MaxAttempts |-> NetErr]
    /\ ctxDone = FALSE
    /\ call = NoCall
    /\ sink = NewMemorySink(DefaultMaxEntries)

NextCalls == TruncateCall \/ ParseCall \/ SelectCall

SpecCalls == InitCalls /\ [][NextCalls]_vars

\* ExtractText on a page whose Markdown, as htmltomarkdown.ConvertString
\* returned it, is any text of letters, newlines, spaces and tabs
InitText ==
    /\ db = EmptyDB
    /\ proc = [p \in Procs |-> Idle]
    /\ ui = ClosedForm([summarizer |-> FALSE])
    /\ opsStarted = 0
    /\ fcall = FetchIdle
    /\ server = [i \in 1..MaxAttempts |-> NetErr]
    /\ ctxDone = FALSE
    /\ sink = NewMemorySink(DefaultMaxEntries)
    /\ call \in {[fn |-> "ConvertString", md |-> md] :
                    md \in Strings({"a", NL, " ", "\t"}, MaxMd)}

NextText == NormalizeCall

\* goroutines that emit to a sink and read it; the pipeline stays idle
InitSink ==
    /\ db = EmptyDB
    /\ proc = [p \in Procs |-> Idle]
    /\ ui = ClosedForm([summarizer |-> FALSE])
    /\ opsStarted = 0
    /\ fcall = FetchIdle
    /\ server = [i \in 1..MaxAttempts |-> NetErr]
    /\ ctxDone = FALSE
    /\ call = NoCall
    /\ sink \in {NewMemorySink(n) : n \in SinkSizes}

NextSink ==
    \E g \in Goroutines :
        \/ EmitCall(g) \/ EmitLock(g) \/ EmitAppend(g) \/ EmitTrim(g)
        \/ EntriesLock(g) \/ EntriesCopy(g) \/ EntriesReturn(g)

SpecSink == InitSink /\ [][NextSink]_vars

SpecText == InitText /\ [][NextText]_vars

(***************************************************************************)
(* Properties                                                              *)
(***************************************************************************)
\* an ingest that has returned, or whose last message is ready
Ended(r) == r.op \in IngestOps /\ r.result.kind \in {"exists", "complete", "failed"}

\* C1: an ingest (addURL, fetchLink) whose URL has a Link row at the duplicate
\* check has ended there, with that row's id and without a call of FetchURL.
C1_DuplicateSuppression ==
    \A p \in Procs :
        LET r == proc[p]
        IN (r.op \in IngestOps /\ r.atCheck # 0) =>
              /\ r.pc \in {"msg", "done"}
              /\ r.result.kind = (IF r.op = "cli_add" THEN "exists" ELSE "complete")
              /\ r.result.linkID = r.atCheck
              /\ r.fetchCalls = 0

\* C1, the case: `lm add` of a URL that was stored when it was checked
C1_Witness ==
    /\ proc[CLI].op = "cli_add" /\ proc[CLI].pc = "done"
    /\ proc[CLI].atCheck # 0 /\ proc[CLI].result.linkID = proc[CLI].atCheck

\* C2: no two Link rows have the same URL, and an ingest of a URL that is
\* stored (found at the duplicate check, or rejected by CreateLink) has
\* written nothing.
C2_URLUnique ==
    /\ \A l1, l2 \in db.links : l1.url = l2.url => l1 = l2
    /\ \A p \in Procs :
          LET r == proc[p]
          IN (r.op \in IngestOps /\ (r.atCheck # 0 \/ r.result.err = "save failed"))
                => ~r.wrote

\* C2, the case: two ingests of one URL have both passed the duplicate check,
\* and CreateLink has rejected the second
C2_Witness ==
    \E p \in Procs :
        /\ proc[p].op \in IngestOps /\ proc[p].result.err = "save failed"
        /\ proc[p].atCheck = 0
        /\ Cardinality({l \in db.links : l.url = proc[p].url}) = 1

\* C3: the index has as many rows as the links table, one for each Link id.
C3_IndexConsistency ==
    /\ Cardinality(db.links_fts) = Cardinality(db.links)
    /\ \A l \in db.links : Cardinality({x \in db.links_fts : x.rowid = l.id}) = 1

\* C3, the case: a row has been created and deleted again
C3_Witness ==
    /\ db.seq_links >= 1
    /\ db.links = {} /\ db.links_fts = {}

\* C4: the index row of each Link is the projection of the row as it is now.
C4_IndexProjection ==
    \A l \in db.links :
        \A x \in db.links_fts : x.rowid = l.id => x = FtsRow(l)

\* C4, the case: UpdateLink has replaced the summary of a row (saveChanges
\* with an edited summary) that was created with another one
C4_Witness ==
    \E l \in db.links :
        /\ l.summary.String = "edited" /\ l.updated_at
        /\ FtsRow(l) \in db.links_fts

\* the server answers every request with 202 and a body, and the caller does
\* not cancel
Always202 ==
    /\ \A i \in 1..MaxAttempts :
          server[i].kind = "response" /\ server[i].status = StatusAccepted
    /\ ~ctxDone

\* C5: against a server that always answers 202, FetchURL ends in failure
\* after exactly 2 requests and returns no body.
C5_RetryBound ==
    (Always202 /\ fcall.pc = "done") =>
        (fcall.err # "" /\ fcall.requests = MaxAttempts /\ fcall.body = NoBody)

C7_CancelInWait ==
    (fcall.pc = "done" /\ fcall.requests = 1 /\ fcall.statuses = <<StatusAccepted>>)
        => fcall.err = "fetch canceled"

\* C8: an ingest that has failed in Fetching, Extracting or Summarizing has
\* made no write to the store.
C8_NoPartialRecord ==
    \A p \in Procs :
        LET r == proc[p]
        IN (r.op \in IngestOps /\ r.result.kind = "failed"
            /\ r.stage \in {"Fetching", "Extracting", "Summarizing"}) => ~r.wrote

\* C8, the case: `lm add` has failed in the extraction
C8_Witness ==
    /\ proc[CLI].op = "cli_add" /\ proc[CLI].pc = "done"
    /\ proc[CLI].result.err = "extraction failed" /\ proc[CLI].stage = "Extracting"
    /\ \A l \in db.links : l.url # proc[CLI].url

\* the row that the ingest r has created, while no UPDATE has touched it
CreatedRow(r) == {l \in db.links : l.id = r.link.id /\ l.url = r.url /\ ~l.updated_at}

C10_NoSummarizer ==
    \A p \in Procs :
        LET r == proc[p]
        IN (r.op \in IngestOps /\ ~r.summarizer /\ r.atCheck = 0
            /\ r.result.kind = "complete") =>
              /\ r.stage # "Summarizing"
              /\ r.result.summary = "" /\ r.result.category = ""
              /\ \A l \in CreatedRow(r) : l.summary = NullString("")

\* two ingests of url, the only operations started, have both found no row at
\* their duplicate check and have both made their CreateLink
Racing(url) ==
    /\ opsStarted = 2
    /\ \E a, b \in Procs :
          /\ a # b
          /\ \A p \in {a, b} :
                /\ proc[p].op \in IngestOps /\ proc[p].url = url
                /\ proc[p].atCheck = 0 /\ proc[p].stage = "Persisting"

\* C11: after two ingests of one new URL have both passed the duplicate check
\* and both tried to persist, there is exactly one Link row of the URL with
\* exactly one index row, the row of the winner; the loser has ended with the
\* UNIQUE violation of links.url and has written nothing; the index and the
\* associations of the store are consistent.
C11_ConcurrentSubmission ==
    \A url \in URLs :
        Racing(url) =>
           /\ Cardinality({l \in db.links : l.url = url}) = 1
           /\ Cardinality(db.links_fts) = Cardinality(db.links)
           /\ \A l \in db.links :
                 /\ Cardinality({x \in db.links_fts : x.rowid = l.id}) = 1
                 /\ FtsRow(l) \in db.links_fts
           /\ \A a \in db.link_categories \cup db.link_tags
                          \cup db.link_tasks \cup db.link_activities :
                 \E l \in db.links : l.id = a[1]
           /\ \E w, l \in Procs :
                 /\ w # l
                 /\ proc[w].result.kind # "failed"
                 /\ \E row \in db.links : row.url = url /\ row.id = proc[w].link.id
                 /\ proc[l].result.kind = "failed"
                 /\ proc[l].result.err = "save failed"
                 /\ proc[l].result.cause = ErrUniqueURL
                 /\ ~proc[l].wrote

\* C11, the case: the Add-Link modal has lost the race against `lm add`
C11_Witness ==
    /\ Racing("u1")
    /\ proc[TUI].result.cause = ErrUniqueURL
    /\ proc[CLI].pc = "done" /\ proc[CLI].result.kind = "complete"

\* C12: an ingest whose CreateLink was rejected for the stored URL does not
\* end as a failure: its result is of a kind of its own and names the record
\* that is stored for the URL.
C12_ConflictDistinct ==
    \A p \in Procs :
        LET r == proc[p]
        IN (r.op \in IngestOps /\ r.result.cause = ErrUniqueURL) =>
              /\ r.result.kind # "failed"
              /\ r.result.linkID = StoredID(r.url)

\* C13: an operation that links a pair which is linked already does not end
\* with the error of that insert, whichever of the four association tables
\* it is (the table itself cannot hold a pair twice).
C13_RelinkTolerated ==
    \A p \in Procs : proc[p].result.cause # ErrUniquePair

\* C14: a call of saveMetadata that begins when the store already holds the
\* rows of a call with its record, category and tags, and during which no
\* other operation has been started, writes nothing and ends with
\* metadataSavedMsg.
C14_SaveMetadataIdempotent ==
    \A p \in Procs :
        LET r == proc[p]
        IN (r.op = "tui_saveMetadata" /\ r.again /\ r.since = opsStarted) =>
              /\ ~r.wrote
              /\ r.result.kind \in {"none", "saved"}

\* C14, the case: the second save of a category and two tag items for the
\* same link has ended
C14_Witness ==
    /\ proc[TUI].op = "tui_saveMetadata" /\ proc[TUI].pc = "msg"
    /\ proc[TUI].again /\ proc[TUI].since = opsStarted
    /\ proc[TUI].result.kind = "saved"
    /\ ui.show /\ ui.category = "Work" /\ Len(ui.tags) = 2
    /\ Cardinality(db.link_categories) = 1 /\ Cardinality(db.link_tags) = 1

\* the rows of the four junction tables, each with the name of its table
AssocRows(d) ==
    ({"category"} \X d.link_categories) \cup ({"tag"} \X d.link_tags)
        \cup ({"task"} \X d.link_tasks) \cup ({"activity"} \X d.link_activities)

Ids(rows) == {x.id : x \in rows}

\* what a deletion of a Category, Tag, Task or Activity row may change: d2 is d
\* without the rows of `table` that reference id, with the same links and
\* index rows
CascadedAway(d, d2, table, id) ==
    /\ AssocRows(d2) = {a \in AssocRows(d) : ~(a[1] = table /\ a[2][2] = id)}
    /\ d2.links = d.links /\ d2.links_fts = d.links_fts

NamesOf(table, assoc, linkID) ==
    {x.name : x \in {y \in table : <<linkID, y.id>> \in assoc}}

\* the items of a list of names
Items(names) == {names[i] : i \in DOMAIN names}

\* a step of an `lm add` run that had a summarizer, which is where a
\* suggestion exists next to the flags
AddStep == proc[CLI].op = "cli_add" /\ proc[CLI].summarizer /\ proc'[CLI] # proc[CLI]

\* the run of `lm add` ends in complete and no other operation has started
AddAlone ==
    /\ AddStep /\ opsStarted = 1
    /\ proc'[CLI].pc = "done" /\ proc'[CLI].result.kind = "complete"

\* C17: flags win over suggestions.  With a non-empty --category, every
\* category row that a step of the run links is the one named by the flag,
\* and a run that completes alone leaves the link with that category only;
\* with a --tags flag that yields a tag, every tag row that a step of the run
\* links is named by the flag, and a run that completes alone leaves the link
\* with exactly the tags of the flag.
C17_FlagsWin ==
    [][AddStep =>
         LET fl == proc[CLI].flags
             cat == TrimSpace(fl.cat)
             tgs == Items(parseTags(fl.tags))
             id == proc'[CLI].link.id
         IN /\ cat # "" =>
                 /\ \A a \in db'.link_categories \ db.link_categories :
                       NamesOf(db'.categories, {a}, a[1]) = {cat}
                 /\ AddAlone => NamesOf(db'.categories, db'.link_categories, id) = {cat}
            /\ tgs # {} =>
                 /\ \A a \in db'.link_tags \ db.link_tags :
                       NamesOf(db'.tags, {a}, a[1]) \subseteq tgs
                 /\ AddAlone => NamesOf(db'.tags, db'.link_tags, id) = tgs]_vars

\* C17, the case: a run of `lm add -c Work -t "Go, "` whose summarizer has
\* suggested "Tech" and "Go" has stored its link with the category Work and
\* the tag go
C17_Witness ==
    /\ proc[CLI].op = "cli_add" /\ proc[CLI].pc = "done"
    /\ proc[CLI].summarizer /\ ~proc[CLI].sugErr
    /\ proc[CLI].result.kind = "complete" /\ opsStarted = 1
    /\ NamesOf(db.categories, db.link_categories, proc[CLI].link.id) = {"Work"}
    /\ NamesOf(db.tags, db.link_tags, proc[CLI].link.id) = {"go"}

\* the category names the users and the summarizer give, as given
GivenCategories ==
    ({TrimSpace(md[1]) : md \in Metadata}
       \cup {x.category : x \in SuggestMetadata("", <<>>)}) \ {""}

\* C18: every Tag row has a lower-case name, whichever operation created it
\* (the --tags flag, the suggestion, the metadata form of Add Link, the save
\* of Edit Link), and every Category row has its name as it was given.
C18_TagsLowerCase ==
    /\ \A t \in db.tags : t.name = ToLower(t.name)
    /\ \A c \in db.categories : c.name \in GivenCategories

\* a step of a running refresh: refetchURL or reloadContent
RefreshStep(p) == proc[p].op \in RefreshOps /\ ~Free(p) /\ proc'[p] # proc[p]

\* id, URL and status of the Link rows
Identity(links) == {[id |-> l.id, url |-> l.url, status |-> l.status] : l \in links}

\* C19: a step of a refresh creates no Link row, keeps id, URL and status of
\* every Link row, and changes no association row and no Category, Tag, Task
\* or Activity row.
C19_RefreshInPlace ==
    [][\A p \in Procs : RefreshStep(p) =>
          /\ db'.seq_links = db.seq_links
          /\ Identity(db'.links) = Identity(db.links)
          /\ AssocRows(db') = AssocRows(db)
          /\ db'.categories = db.categories /\ db'.tags = db.tags
          /\ db'.tasks = db.tasks /\ db'.activities = db.activities]_vars

\* C19, the case: `lm refetch` has completed and has written new values to a
\* link that has a category and a tag
C19_Witness ==
    /\ proc[CLI].op = "cli_refetch" /\ proc[CLI].pc = "done"
    /\ proc[CLI].result.kind = "complete" /\ proc[CLI].wrote
    /\ \E l \in db.links :
          /\ l.id = proc[CLI].link.id /\ l.fetched_at /\ l.updated_at
          /\ NamesOf(db.categories, db.link_categories, l.id) # {}
          /\ NamesOf(db.tags, db.link_tags, l.id) # {}

\* C20: a refresh that has ended in complete has set fetched_at of its
\* link and, when it had a summarizer to call, summarized_at too, whether it
\* is `lm refetch` or the reload of the Edit-Link dialog.
C20_RefreshTimestamps ==
    \A p \in Procs :
        LET r == proc[p]
        IN (r.op \in RefreshOps /\ r.pc = "done" /\ r.result.kind = "complete") =>
              \A l \in db.links :
                  l.id = r.link.id =>
                     /\ l.fetched_at
                     /\ r.summarizer => l.summarized_at

\* the goroutines of the TUI
Slots == {TUI, TUI2}

\* the messages of one ingest as the caller is to see them: fetched, then
\* extracted, as far as the ingest got, then one terminal message
InOrder(events) ==
    \E n \in 0..2 :
        /\ Len(events) = n + 1
        /\ SubSeq(events, 1, n) = SubSeq(<<"fetched", "extracted">>, 1, n)
        /\ events[n + 1] \in {"complete", "failed"}

\* C21: an ingest that has come to its end has handed its caller the stage
\* messages in the order fetched, extracted and then exactly one terminal
\* message, complete or failed, and nothing after it: the form for a chain of
\* fetchLink, the return of addURL for `lm add`.
C21_TerminalEvent ==
    /\ \A p \in Slots :
          (proc[p].submitted # "" /\ Free(p)) => InOrder(proc[p].events)
    /\ (proc[CLI].op = "cli_add" /\ proc[CLI].pc = "done") =>
          proc[CLI].result.kind \in {"exists", "complete", "failed"}

\* Update handles a linkProcessErrorMsg while the modal is shown
FailedHandled ==
    /\ ui.show
    /\ \E p \in Slots : /\ proc[p].pc = "msg" /\ proc[p].result.kind = "failed"
                        /\ proc'[p].pc # "msg"

\* the handling of a message of the pipeline closes the modal
PipelineCloses ==
    /\ ui.show /\ ~ui'.show
    /\ \E p \in Slots : proc[p].pc = "msg" /\ proc'[p].pc # "msg"

\* C22: the handling of a failure leaves the modal shown, its URL, category
\* and tags inputs as they were, and the form ready for a submission; and the
\* handling of a message closes the modal only if the form has received the
\* complete message of the URL it has submitted.
C22_FormStaysOpen ==
    [][/\ FailedHandled =>
             /\ ui'.show /\ ~ui'.isProcessing
             /\ ui'.url = ui.url /\ ui'.category = ui.category /\ ui'.tags = ui.tags
       /\ PipelineCloses =>
             (ui.submitted # "" => ui.submitted \in ui.completed)]_vars

\* C23: once the modal has been closed on an ingest that is under way, no
\* step of that ingest calls FetchURL or the summarizer and none creates a
\* Link row.
C23_CloseAborts ==
    [][\A p \in Slots :
          (proc[p].closed /\ proc'[p] # proc[p]) =>
              /\ proc'[p].fetchCalls <= proc[p].fetchCalls
              /\ proc'[p].stage \in {"Summarizing", "Persisting"} =>
                    proc'[p].stage = proc[p].stage
              /\ db'.links = db.links]_vars

\* the step of p calls FetchURL
FetchCalled(p) == proc'[p].fetchCalls > proc[p].fetchCalls

\* the step of p calls the summarizer: the steps that lead to CreateLink, to
\* UpdateLinkSummarizedAt and to the UpdateLink of reloadContent, when they
\* get as far as Summarize
SummarizerCalled(p) ==
    /\ proc[p].summarizer /\ proc'[p] # proc[p]
    /\ \/ proc[p].pc \in {"create", "summarized_at"}
       \/ proc[p].pc = "update" /\ proc[p].op = "tui_reload"
    /\ proc'[p].stage \in {"Summarizing", "Persisting"}

\* C24: a step of an ingest or a refresh that calls FetchURL or the
\* summarizer belongs to a run that has written nothing to the store so far.
C24_WritesLast ==
    [][\A p \in Procs :
          (/\ proc[p].op \in IngestOps \cup RefreshOps
           /\ FetchCalled(p) \/ SummarizerCalled(p)) => ~proc[p].wrote]_vars

Ellipsis == <<".", ".", ".">>

\* s is the beginning of t
IsPrefix(s, t) == Len(s) <= Len(t) /\ SubSeq(t, 1, Len(s)) = s

\* C25: TruncateText returns a text of at most maxLength characters as it
\* is; of a longer text it returns at most maxLength + 3 characters, which
\* end with the ellipsis "..." and before it are a beginning of the text.
C25_TruncationLength ==
    call.fn = "TruncateText" =>
        IF Len(call.text) <= call.maxLength
        THEN call.out = call.text
        ELSE /\ Len(call.out) <= call.maxLength + 3
             /\ Len(call.out) >= 3
             /\ SubSeq(call.out, Len(call.out) - 2, Len(call.out)) = Ellipsis
             /\ IsPrefix(SubSeq(call.out, 1, Len(call.out) - 3), call.text)

\* C25, the case: "aaa a" truncated to 4 characters is "aaa..."
C25_Witness ==
    /\ call.fn = "TruncateText"
    /\ call.text = <<"a", "a", "a", " ", "a">> /\ call.maxLength = 4
    /\ call.out = <<"a", "a", "a">> \o Ellipsis

\* the indexes (from 0) below maxLength of the spaces of the text that lie
\* past the half of maxLength
SpacesPastHalf(text, maxLength) ==
    {i \in 0..(maxLength - 1) : text[i + 1] = " " /\ 2 * i > maxLength}

\* C26: of a text longer than maxLength, TruncateText keeps the characters
\* before the last space that lies below maxLength and past its half, so
\* that the character after the kept part is that space; if there is no such
\* space it keeps exactly maxLength characters.
C26_TruncationBoundary ==
    (call.fn = "TruncateText" /\ Len(call.text) > call.maxLength) =>
        LET spaces == SpacesPastHalf(call.text, call.maxLength)
            kept == SubSeq(call.out, 1, Len(call.out) - 3)
        IN IF spaces # {}
           THEN LET last == CHOOSE i \in spaces : \A j \in spaces : j <= i
                IN /\ kept = SubSeq(call.text, 1, last)
                   /\ call.text[Len(kept) + 1] = " "
           ELSE kept = SubSeq(call.text, 1, call.maxLength)

\* C26, the cases: a cut at the last space past the half, and a cut at
\* maxLength of a text whose only space lies before the half
C26_Witness ==
    /\ call.fn = "TruncateText"
    /\ call.text = <<"a", " ", "a", "a", "a">> /\ call.maxLength = 4
    /\ call.out = <<"a", " ", "a", "a">> \o Ellipsis

LowerChars(x) ==
    [i \in 1..Len(x) |-> CASE x[i] = "B" -> "b" [] x[i] = "T" -> "t"
                           [] x[i] = "X" -> "x" [] OTHER -> x[i]]

RECURSIVE SplitOn(_, _)
\* the parts of x between the separators
SplitOn(x, sep) ==
    IF \A i \in 1..Len(x) : x[i] # sep THEN <<x>>
    ELSE LET i == CHOOSE j \in 1..Len(x) : x[j] = sep /\ \A k \in 1..(j - 1) : x[k] # sep
         IN <<SubSeq(x, 1, i - 1)>> \o SplitOn(SubSeq(x, i + 1, Len(x)), sep)

BeginsWith(line, key) == Len(line) >= Len(key) /\ SubSeq(line, 1, Len(key)) = key

RECURSIVE GrammarLines(_, _, _)
\* the line grammar of the responses: a line that begins with "Category:"
\* sets the category to the trimmed rest, a line that begins with "Tags:"
\* gives the parts of its rest between the commas, trimmed and lower-cased
GrammarLines(lines, category, tags) ==
    IF lines = <<>> THEN [category |-> category, tags |-> tags]
    ELSE LET line == Head(lines)
             rest(key) == SubSeq(line, Len(key) + 1, Len(line))
             parts == SplitOn(rest(TagsKey), ",")
             named == SelectSeq([i \in 1..Len(parts) |->
                                    LowerChars(TrimRight(TrimLeft(parts[i])))],
                                LAMBDA t : t # <<>>)
         IN IF BeginsWith(line, CategoryKey)
            THEN GrammarLines(Tail(lines), TrimRight(TrimLeft(rest(CategoryKey))), tags)
            ELSE IF BeginsWith(line, TagsKey)
            THEN GrammarLines(Tail(lines), category, tags \o named)
            ELSE GrammarLines(Tail(lines), category, tags)

\* C28: parseMetadataResponse gives what the line grammar gives, with the
\* category "General" when none was parsed and the tags ["uncategorized"]
\* when none were.
C28_MetadataGrammar ==
    call.fn = "parseMetadataResponse" =>
        LET g == GrammarLines(SplitOn(call.response, NL), <<>>, <<>>)
        IN /\ call.out.category = IF g.category = <<>> THEN General ELSE g.category
           /\ call.out.tags = IF Len(g.tags) = 0 THEN <<Uncategorized>> ELSE g.tags

\* a line of a Markdown text with nothing but spaces and tabs on it
BlankLine(line) == \A i \in 1..Len(line) : line[i] \in Blank

\* C29: the text that ExtractText returns has no two blank lines one after
\* the other, and neither begins nor ends with white space.
C29_WhitespaceNormalized ==
    call.fn = "ExtractText" =>
        LET lines == SplitOn(call.out, NL)
        IN /\ \A i \in 1..(Len(lines) - 1) :
                 ~(BlankLine(lines[i]) /\ BlankLine(lines[i + 1]))
           /\ call.out # <<>> =>
                 ~IsSpace(call.out[1]) /\ ~IsSpace(call.out[Len(call.out)])

\* C30: when `lm add --type task` comes to its task and a task of the chosen
\* name is stored, no Task row is added and the link is associated with a
\* stored task of that name; likewise for `--type activity`.
C30_CreateOrFind ==
    [][\A p \in Procs :
         /\ (/\ proc[p].pc = "task_create" /\ proc'[p].pc = "task_link"
             /\ \E t \in db.tasks : t.name = proc[p].name)
            => /\ db'.tasks = db.tasks
               /\ \E t \in db.tasks : t.name = proc[p].name /\ t.id = proc'[p].other
         /\ (/\ proc[p].pc = "act_create" /\ proc'[p].pc = "act_link"
             /\ \E a \in db.activities : a.name = proc[p].name)
            => /\ db'.activities = db.activities
               /\ \E a \in db.activities : a.name = proc[p].name /\ a.id = proc'[p].other]_vars

\* the last n elements of a sequence, all of it if it has fewer
LastN(q, n) == IF Len(q) > n THEN SubSeq(q, Len(q) - n + 1, Len(q)) ELSE q

\* C31: a sink constructed with maxSize <= 0 keeps DefaultMaxEntries entries,
\* any other its maxSize; whenever no Emit holds the lock the buffer holds at
\* most maxSize entries, the most recently emitted ones in the order of their
\* emission; and what a call of Entries has returned is the buffer as it was
\* when the call took the lock.
C31_SinkBounded ==
    /\ sink.maxSize = (IF sink.given <= 0 THEN DefaultMaxEntries ELSE sink.given)
    /\ (\A g \in Goroutines : sink.g[g].pc # "emit_trim") =>
          /\ Len(sink.entries) <= sink.maxSize
          /\ sink.entries = LastN(sink.emitted, sink.maxSize)
    /\ \A g \in Goroutines :
          sink.g[g].returned =>
             /\ Len(sink.g[g].result) <= sink.maxSize
             /\ sink.g[g].result =
                   LastN(SubSeq(sink.emitted, 1, sink.g[g].seen), sink.maxSize)

\* C31, the case: two goroutines have emitted in the other order than they
\* rendered, to a sink of one entry, and one of them has read the sink
\* between the two emissions
C31_Witness ==
    /\ sink.given = 1 /\ sink.emitted = <<2, 1>> /\ sink.entries = <<1>>
    /\ \E g \in Goroutines : sink.g[g].returned /\ sink.g[g].result = <<2>>

\* the element that the priority list selects in doc: the first element that
\* matches the first selector of the list that matches anything, 0 (the
\* body) if no selector matches
ByPriority(doc) ==
    LET matched == {k \in 1..Len(Selectors) : \E i \in 1..Len(doc) : Selectors[k] \in doc[i]}
    IN IF matched = {} THEN 0
       ELSE LET best == CHOOSE k \in matched : \A m \in matched : k <= m
                els == {i \in 1..Len(doc) : Selectors[best] \in doc[i]}
            IN CHOOSE i \in els : \A j \in els : i <= j

\* C32: the content area that ExtractText uses is the first element that
\* matches the highest-priority selector that matches anything, and the body
\* only when no selector matches.
C32_ContainerByPriority ==
    call.fn = "mainContent" => call.out = ByPriority(call.doc)

\* C33: the step of `lm refetch` that looks its URL up when no Link row has
\* that URL ends the run with the not-found error, no call of FetchURL made
\* and nothing written, and leaves every table as it was.
C33_RefreshNotFound ==
    [][\A p \in Procs :
         (/\ proc[p].op = "cli_refetch" /\ proc[p].pc = "refetch_get"
          /\ proc'[p] # proc[p]
          /\ \A l \in db.links : l.url # proc[p].url)
         => /\ db' = db
            /\ proc'[p].pc = "done"
            /\ proc'[p].result.kind = "failed"
            /\ proc'[p].result.err = "URL not found in database"
            /\ proc'[p].fetchCalls = 0 /\ ~proc'[p].wrote]_vars

\* C33, the case: `lm refetch` of a URL that is not stored has ended, in a
\* database that holds the record of another URL
C33_Witness ==
    /\ proc[CLI].op = "cli_refetch" /\ proc[CLI].pc = "done"
    /\ proc[CLI].result.err = "URL not found in database"
    /\ db.links # {} /\ \A l \in db.links : l.url # proc[CLI].url

\* C34: whatever the server does with the requests and whenever the context
\* is cancelled, a call of FetchURL makes at most MaxAttempts requests, ends
\* once it has begun, and ends with a body and no error or with an error and
\* no body.
C34_FetchBounded ==
    /\ [](/\ fcall.requests <= MaxAttempts
          /\ fcall.pc = "done" => (fcall.err = "") # (fcall.body = NoBody))
    /\ (fcall.pc = "request" ~> fcall.pc = "done")

\* C34, the case: a call whose context was cancelled has ended with the error
\* of its request, where the server would have answered
C34_Witness ==
    /\ fcall.pc = "done" /\ ctxDone /\ fcall.requests = 1
    /\ fcall.err = "failed to fetch URL" /\ server[1].kind = "response"

\* C35: the step of `lm add` that finds its URL stored ends the run and
\* leaves every table as it was, whatever flags the run was given; the run
\* has written nothing.
C35_DuplicateWritesNothing ==
    [][\A p \in Procs :
         (/\ proc[p].op = "cli_add" /\ proc[p].pc = "dupcheck"
          /\ proc'[p] # proc[p]
          /\ \E l \in db.links : l.url = proc[p].url)
         => /\ db' = db
            /\ proc'[p].pc = "done" /\ proc'[p].result.kind = "exists"
            /\ ~proc'[p].wrote /\ proc'[p].fetchCalls = 0]_vars

\* C35, the case: `lm add --type task --name Work` of a stored URL has ended
C35_Witness ==
    /\ proc[CLI].op = "cli_add" /\ proc[CLI].pc = "done"
    /\ proc[CLI].result.kind = "exists"
    /\ proc[CLI].flags.type = "task" /\ proc[CLI].flags.nm = "Work"

\* C36: a refresh (refetchURL, reloadContent) that has ended in failure has
\* changed nothing in the store: the Link record is as it was when the
\* refresh started.
C36_FailedRefreshUnchanged ==
    \A p \in Procs :
        (proc[p].op \in RefreshOps /\ proc[p].result.kind = "failed")
            => ~proc[p].wrote

\* C37: a step of a refresh leaves a Link row that has a summary with a
\* summary: no refresh replaces a stored summary by an empty one.
C37_SummaryKept ==
    [][\A p \in Procs : RefreshStep(p) =>
          \A l \in db.links, n \in db'.links :
              (l.id = n.id /\ l.summary.Valid) => n.summary.Valid]_vars

\* another operation, on another link than p, is about to link the row with
\* this id, which it has found or created
LinkingElsewhere(p, pc, id) ==
    \E q \in Procs \ {p} :
        /\ proc[q].pc = pc /\ proc[q].other = id
        /\ proc[q].link.id # proc[p].link.id

\* C38: no two Tag rows and no two Category rows have one name; and an
\* operation that comes to create the tag (the category) it did not find,
\* when an operation on another link has created it since and is about to
\* link it, goes on to link the row of that name to its own link.
C38_ConcurrentAssociation ==
    [][/\ \A t1, t2 \in db'.tags : t1.name = t2.name => t1 = t2
       /\ \A c1, c2 \in db'.categories : c1.name = c2.name => c1 = c2
       /\ \A p \in Procs :
            /\ (/\ proc[p].pc = "tag_create" /\ proc'[p] # proc[p]
                /\ \E t \in db.tags :
                      t.name = proc[p].name /\ LinkingElsewhere(p, "tag_link", t.id))
               => /\ proc'[p].pc = "tag_link"
                  /\ \E t \in db.tags : t.name = proc[p].name /\ t.id = proc'[p].other
            /\ (/\ proc[p].pc = "cat_create" /\ proc'[p] # proc[p]
                /\ \E c \in db.categories :
                      c.name = proc[p].name /\ LinkingElsewhere(p, "cat_link", c.id))
               => /\ proc'[p].pc = "cat_link"
                  /\ \E c \in db.categories : c.name = proc[p].name /\ c.id = proc'[p].other]_vars

\* C39: the message of a chain of commands that fetchLink started before the
\* modal was closed changes nothing in the form of the modal that is open
\* when the message is handled.
C39_EventsOfOwnForm ==
    [][\A p \in Procs :
          (proc[p].pc = "msg" /\ proc[p].closed /\ proc'[p] # proc[p])
             => ui' = ui]_vars

\* C40: the UpdateLink of a save in an Edit-Link dialog whose reload has
\* ended leaves title and content of the link as they are stored, which
\* after a successful reload are the ones the reload has stored.
C40_SaveKeepsReload ==
    [][\A p \in Procs :
          (/\ proc[p].op = "tui_saveChanges" /\ proc[p].pc = "update"
           /\ proc[p].held # NoRow /\ proc'[p] # proc[p])
          => \A l \in db.links, n \in db'.links :
                (l.id = proc[p].link.id /\ n.id = l.id)
                   => n.title = l.title /\ n.content = l.content]_vars

====
